---- MODULE Spec2Model ----
(***************************************************************************)
(* A model of the document-to-chunk pipeline of the repository:            *)
(*   backend/scripts/chunk_text.py        (heading segmenter, chunk packer)*)
(*   backend/scripts/extract_text.py      (boilerplate cleaner)            *)
(*   backend/scripts/build_final_texts.py (extraction method selection)    *)
(*   backend/scripts/compare_extraction_methods.py (strategy comparison)   *)
(*                                                                         *)
(* Nine specifications share the module: Spec and SpecSections            *)
(* (chunk_text), SpecClean (clean_text), SpecBuild (build_final_texts),    *)
(* SpecCompare (the main of compare_extraction_methods.py), SpecExtract    *)
(* (the main of extract_text.py), SpecMain (the main of chunk_text.py),    *)
(* SpecInterleaved (two calls of chunk_text at once) and SpecDeduplicated  *)
(* (the main of chunk_text.py run again with every heading index taken     *)
(* once).  Each keeps the variables of the others at their idle values.    *)
(***************************************************************************)
EXTENDS Integers, Sequences, FiniteSets, TLC

(***************************************************************************)
(* chunk_text(text, filename): the argument, the locals of the function    *)
(* and the position in it.  lost and discards are history: the units of    *)
(* the buffers given up without being emitted, and how many buffers were.  *)
(* emits is history too: for each chunk, in order, the section it came     *)
(* from, the unit whose arrival closed it, discards at that time, the      *)
(* token count that was compared with MIN_TOKENS and the buffer emitted.   *)
(***************************************************************************)
VARIABLES text, filename, language, pc, heading_indices, sections, sec,
          paragraphs, sentences, chunk_buffer, chunk_tokens, overlap_sentences,
          chunks, chunk_index, lost, discards, emits

chunkVars == <<text, filename, language, pc, heading_indices, sections, sec,
               paragraphs, sentences, chunk_buffer, chunk_tokens,
               overlap_sentences, chunks, chunk_index, lost, discards, emits>>

(***************************************************************************)
(* clean_text(page_texts): the argument, the locals and the position.      *)
(* Texts are sequences of characters here.                                 *)
(***************************************************************************)
VARIABLES page_texts, cpc, line_counts, headers_footers, cleaned_pages, full_text

cleanVars == <<page_texts, cpc, line_counts, headers_footers, cleaned_pages, full_text>>

(***************************************************************************)
(* build_final_texts(): the listed PDFs, the loop index, the candidates    *)
(* read for the current PDF, the files of FINAL_DIR, what the run printed  *)
(* for each PDF, and the position.                                         *)
(***************************************************************************)
VARIABLES pdf_files, bi, candidates, final_files, printed, bpc

buildVars == <<pdf_files, bi, candidates, final_files, printed, bpc>>

(***************************************************************************)
(* compare_extraction_methods.main(): the number of PDFs listed, the loop  *)
(* index, the PDF at pdf_path with the state of the OCR engine, the        *)
(* results dictionary of the compare_methods call in progress,             *)
(* all_results, the files of the OUTPUT_DIRS, the report, and the          *)
(* position.  tried is history: for each PDF handled, the strategies that  *)
(* were attempted and those whose extraction threw.                        *)
(***************************************************************************)
VARIABLES cmp_files, cmp_i, cmp_doc, results, all_results, cmp_out, report,
          tried, cmp_pc

compareVars == <<cmp_files, cmp_i, cmp_doc, results, all_results, cmp_out, report,
                 tried, cmp_pc>>

(***************************************************************************)
(* extract_text.main(): the number of PDFs listed, the loop index, the two *)
(* lists of the summary, the files of OUTPUT_DIR, what the run printed at  *)
(* its end, and the position.  extracted is history: what                  *)
(* extract_text_from_pdf did for each PDF handled.                         *)
(***************************************************************************)
VARIABLES ext_files, ext_i, scanned_pdfs, text_based_pdfs, ext_out, summary,
          extracted, ext_pc

extractVars == <<ext_files, ext_i, scanned_pdfs, text_based_pdfs, ext_out, summary,
                 extracted, ext_pc>>

(***************************************************************************)
(* chunk_text.main(): the text files listed, the loop index, all_chunks,   *)
(* the lines of OUTPUT_FILE, what the run printed for each file, and the   *)
(* position.  The script may be run again on the same directory: main_run  *)
(* tells which run this is, order the order glob listed the files in, and  *)
(* by_file and first_run are history: the chunks each file gave in this    *)
(* run and in the first one.  parked is the frame of a call of chunk_text  *)
(* that waits while another one runs.                                      *)
(***************************************************************************)
VARIABLES txt_files, order, main_i, all_chunks, output_file, main_printed,
          main_run, by_file, first_run, parked, main_pc

mainVars == <<txt_files, order, main_i, all_chunks, output_file, main_printed,
              main_run, by_file, first_run, parked, main_pc>>

vars == <<chunkVars, cleanVars, buildVars, compareVars, extractVars, mainVars>>

CompareIdle ==
  /\ cmp_pc = "idle" /\ cmp_files = 0 /\ cmp_i = 0 /\ cmp_doc = <<>> /\ results = <<>>
  /\ all_results = <<>> /\ cmp_out = <<>> /\ report = <<>> /\ tried = <<>>

ExtractIdle ==
  /\ ext_pc = "idle" /\ ext_files = 0 /\ ext_i = 0 /\ scanned_pdfs = <<>>
  /\ text_based_pdfs = <<>> /\ ext_out = <<>> /\ summary = <<>> /\ extracted = <<>>

MainIdle ==
  /\ main_pc = "idle" /\ txt_files = <<>> /\ order = <<>> /\ main_i = 0
  /\ all_chunks = <<>> /\ output_file = <<>> /\ main_printed = <<>>
  /\ main_run = "first" /\ by_file = <<>> /\ first_run = <<>> /\ parked = <<>>

ChunkIdle ==
  /\ pc = "idle" /\ text = <<>> /\ filename = "" /\ language = ""
  /\ heading_indices = <<>> /\ sections = <<>>
  /\ sec = 0 /\ paragraphs = <<>> /\ sentences = <<>> /\ chunk_buffer = <<>>
  /\ chunk_tokens = 0 /\ overlap_sentences = <<>> /\ chunks = <<>>
  /\ chunk_index = 0 /\ lost = {} /\ discards = 0 /\ emits = <<>>

CleanIdle ==
  /\ cpc = "idle" /\ page_texts = <<>> /\ line_counts = <<>>
  /\ headers_footers = {} /\ cleaned_pages = <<>> /\ full_text = <<>>

BuildIdle ==
  /\ bpc = "idle" /\ pdf_files = 0 /\ bi = 0 /\ candidates = <<>>
  /\ final_files = <<>> /\ printed = <<>>

(***************************************************************************)
(* Program constants of chunk_text.py.                                     *)
(***************************************************************************)
MAX_TOKENS == 700
MIN_TOKENS == 150
OVERLAP_SENTENCES == 2
HEADING_SHORT_LEN == 60
HEADING_CAPS_LEN == 100

(***************************************************************************)
(* Bounds of the model.                                                    *)
(***************************************************************************)
MaxLines == 4

(***************************************************************************)
(* Text.  A text is the sequence of its lines (text.split("\n")), after    *)
(* normalize_text; a line is named, and LineTable gives what the code      *)
(* measures of it:                                                         *)
(*   chars     len(line.strip())                                           *)
(*   numbered  re.match(r"^[\d\.\s]+[A-Z]", line.strip())                  *)
(*   upper     line.strip().isupper()                                      *)
(*   sents     the token counts of the sentence fragments the line holds,  *)
(*             fragments being separated by a terminator and white space   *)
(*   closed    the line ends with a sentence terminator, so that the       *)
(*             newline after it ends the sentence                          *)
(*   alpha     the number of its characters c with c.isalpha()             *)
(*   arabic    the number of its characters in U+0600..U+06FF              *)
(* and one thing the code does not measure:                                *)
(*   arabic_alpha  the number of its alphabetic characters in that block   *)
(* NOTE is an Arabic line of six letters carrying three diacritics, P300   *)
(* is a bilingual paragraph, P650 an Arabic paragraph with diacritics; the *)
(* other lines are Latin.  The sentence terminators of the lines are "."   *)
(* and "!", which both patterns of split_sentences know.                   *)
(* The tokenizer (tiktoken, cl100k_base) is outside the repository: it is  *)
(* modelled as additive over the fragments, white space and terminators    *)
(* carrying no token.                                                      *)
(***************************************************************************)
LineTable ==
  [ BLANK |-> [chars |-> 0,   numbered |-> FALSE, upper |-> FALSE, sents |-> <<>>,              closed |-> FALSE,
               alpha |-> 0, arabic |-> 0, arabic_alpha |-> 0],
    HEAD  |-> [chars |-> 12,  numbered |-> FALSE, upper |-> TRUE,  sents |-> <<2>>,             closed |-> FALSE,
               alpha |-> 9, arabic |-> 0, arabic_alpha |-> 0],
    NUM   |-> [chars |-> 8,   numbered |-> TRUE,  upper |-> FALSE, sents |-> <<3>>,             closed |-> FALSE,
               alpha |-> 5, arabic |-> 0, arabic_alpha |-> 0],
    NUMUP |-> [chars |-> 8,   numbered |-> TRUE,  upper |-> TRUE,  sents |-> <<3>>,             closed |-> FALSE,
               alpha |-> 5, arabic |-> 0, arabic_alpha |-> 0],
    NOTE  |-> [chars |-> 20,  numbered |-> FALSE, upper |-> FALSE, sents |-> <<5>>,             closed |-> TRUE,
               alpha |-> 6, arabic |-> 9, arabic_alpha |-> 6],
    P100  |-> [chars |-> 400, numbered |-> FALSE, upper |-> FALSE, sents |-> <<100>>,           closed |-> TRUE,
               alpha |-> 300, arabic |-> 0, arabic_alpha |-> 0],
    P300  |-> [chars |-> 1200, numbered |-> FALSE, upper |-> FALSE, sents |-> <<300>>,          closed |-> TRUE,
               alpha |-> 900, arabic |-> 270, arabic_alpha |-> 270],
    P650  |-> [chars |-> 2600, numbered |-> FALSE, upper |-> FALSE, sents |-> <<650>>,          closed |-> TRUE,
               alpha |-> 1900, arabic |-> 2200, arabic_alpha |-> 1900],
    BIG3  |-> [chars |-> 3600, numbered |-> FALSE, upper |-> FALSE, sents |-> <<300, 300, 300>>, closed |-> TRUE,
               alpha |-> 2800, arabic |-> 0, arabic_alpha |-> 0],
    BIGD  |-> [chars |-> 3000, numbered |-> FALSE, upper |-> FALSE, sents |-> <<100, 650>>,     closed |-> TRUE,
               alpha |-> 2400, arabic |-> 0, arabic_alpha |-> 0] ]

LineNames == DOMAIN LineTable

(* text is one of the texts of at most MaxLines lines *)
IsText(t) == \E n \in 1..MaxLines : t \in [1..n -> LineNames]

IsBlank(l) == LineTable[l].chars = 0

RECURSIVE SumSeq(_)
SumSeq(s) == IF s = <<>> THEN 0 ELSE Head(s) + SumSeq(Tail(s))

(* count_tokens of one line *)
LineTokens(l) == SumSeq(LineTable[l].sents)

(***************************************************************************)
(* Units.  A unit is a paragraph, or a sentence of an exploded paragraph;  *)
(* it is tagged with the line its paragraph starts at and its rank in the  *)
(* paragraph (0 for a whole paragraph), and carries its token count.       *)
(***************************************************************************)
NoUnit == [line |-> 0, frag |-> 0, tok |-> 0]

RECURSIVE SumTok(_)
SumTok(us) == IF us = <<>> THEN 0 ELSE Head(us).tok + SumTok(Tail(us))

(* count_tokens(" ".join(chunk_buffer)) *)
CountTokensJoined(buffer) == SumTok(buffer)

(***************************************************************************)
(* detect_language: the characters of the Arabic block over the            *)
(* alphabetic characters, against 0.3.                                     *)
(***************************************************************************)
RECURSIVE SumAttr(_, _)
SumAttr(lines, attr) ==
  IF lines = <<>> THEN 0 ELSE LineTable[Head(lines)][attr] + SumAttr(Tail(lines), attr)

(* line 35: sum(1 for c in text if "\u0600" <= c <= "\u06FF") *)
ArabicChars(lines) == SumAttr(lines, "arabic")

(* the numerator taken among the alphabetic characters only *)
ArabicCharsAlphabetic(lines) == SumAttr(lines, "arabic_alpha")

(* line 36: len([c for c in text if c.isalpha()]) *)
TotalChars(lines) == SumAttr(lines, "alpha")

(* arabic / total > 0.3 *)
OverArabicRatio(arabic, total) == 10 * arabic > 3 * total

detect_language(lines) ==
  IF TotalChars(lines) = 0 THEN "en"
  ELSE IF OverArabicRatio(ArabicChars(lines), TotalChars(lines)) THEN "ar" ELSE "en"

(***************************************************************************)
(* detect_headings: one index per rule the line satisfies, in line order.  *)
(***************************************************************************)
RuleStandalone(lines, i) ==
  /\ LineTable[lines[i]].chars < HEADING_SHORT_LEN
  /\ i > 1
  /\ IsBlank(lines[i - 1])
  /\ i < Len(lines)
  /\ IsBlank(lines[i + 1])

RuleNumbered(lines, i) == LineTable[lines[i]].numbered

RuleAllCaps(lines, i) ==
  LineTable[lines[i]].upper /\ LineTable[lines[i]].chars < HEADING_CAPS_LEN

HeadingHits(lines, i) ==
  IF IsBlank(lines[i]) THEN <<>>
  ELSE (IF RuleStandalone(lines, i) THEN <<i>> ELSE <<>>)
       \o (IF RuleNumbered(lines, i) THEN <<i>> ELSE <<>>)
       \o (IF RuleAllCaps(lines, i) THEN <<i>> ELSE <<>>)

RECURSIVE DetectFrom(_, _)
DetectFrom(lines, i) ==
  IF i > Len(lines) THEN <<>>
  ELSE HeadingHits(lines, i) \o DetectFrom(lines, i + 1)

detect_headings(lines) == DetectFrom(lines, 1)

(***************************************************************************)
(* The sections of chunk_text: a section holds lines start .. end-1.       *)
(***************************************************************************)
SectionStart(his, i) == his[i]

(* a section running to the next entry that names another line *)
SectionEndNextDistinct(his, i, lines) ==
  IF \E k \in (i + 1)..Len(his) : his[k] > his[i]
  THEN his[CHOOSE k \in (i + 1)..Len(his) :
             /\ his[k] > his[i]
             /\ \A m \in (i + 1)..(k - 1) : his[m] <= his[i]]
  ELSE Len(lines) + 1

(* every section running to the end of the text *)
SectionEndOfText(his, i, lines) == Len(lines) + 1

SectionEnd(his, i, lines) ==
  IF i + 1 <= Len(his) THEN his[i + 1] ELSE Len(lines) + 1

BuildSections(lines, his) ==
  IF his # <<>>
  THEN [i \in 1..Len(his) |->
          [heading |-> lines[SectionStart(his, i)],
           start |-> SectionStart(his, i),
           end |-> SectionEnd(his, i, lines)]]
  ELSE << [heading |-> "", start |-> 1, end |-> Len(lines) + 1] >>

(***************************************************************************)
(* split_paragraphs on the lines start .. end-1: the maximal runs of       *)
(* non-empty lines, each as [first, last].                                 *)
(***************************************************************************)
RECURSIVE ParasFrom(_, _, _, _)
ParasFrom(lines, i, end, open) ==
  IF i >= end
  THEN (IF open = 0 THEN <<>> ELSE << [first |-> open, last |-> end - 1] >>)
  ELSE IF IsBlank(lines[i])
       THEN (IF open = 0 THEN <<>> ELSE << [first |-> open, last |-> i - 1] >>)
            \o ParasFrom(lines, i + 1, end, 0)
       ELSE ParasFrom(lines, i + 1, end, IF open = 0 THEN i ELSE open)

split_paragraphs(lines, start, end) == ParasFrom(lines, start, end, 0)

RECURSIVE ParaTokensFrom(_, _, _)
ParaTokensFrom(lines, i, last) ==
  IF i > last THEN 0 ELSE LineTokens(lines[i]) + ParaTokensFrom(lines, i + 1, last)

(* count_tokens(para) *)
ParaTokens(lines, p) == ParaTokensFrom(lines, p.first, p.last)

ParaUnit(lines, p) == [line |-> p.first, frag |-> 0, tok |-> ParaTokens(lines, p)]

(***************************************************************************)
(* split_sentences: the fragments of the paragraph's lines, a fragment     *)
(* that no terminator closes running on into the next line.                *)
(***************************************************************************)
LineFrags(l) ==
  [k \in 1..Len(LineTable[l].sents) |->
     [tok |-> LineTable[l].sents[k],
      closed |-> (k < Len(LineTable[l].sents)) \/ LineTable[l].closed]]

RECURSIVE FlatFrags(_, _, _)
FlatFrags(lines, i, last) ==
  IF i > last THEN <<>> ELSE LineFrags(lines[i]) \o FlatFrags(lines, i + 1, last)

RECURSIVE MergeFrags(_, _)
MergeFrags(fr, carry) ==
  IF fr = <<>> THEN (IF carry > 0 THEN <<carry>> ELSE <<>>)
  ELSE IF Head(fr).closed
       THEN <<carry + Head(fr).tok>> \o MergeFrags(Tail(fr), 0)
       ELSE MergeFrags(Tail(fr), carry + Head(fr).tok)

split_sentences(lines, p) ==
  LET toks == MergeFrags(FlatFrags(lines, p.first, p.last), 0)
  IN  [k \in 1..Len(toks) |-> [line |-> p.first, frag |-> k, tok |-> toks[k]]]

(***************************************************************************)
(* The packing rule of chunk_text.                                         *)
(***************************************************************************)
(* chunk_tokens + unit_tokens > MAX_TOKENS and chunk_buffer *)
ShouldClose(tokens, u, buffer) == tokens + u.tok > MAX_TOKENS /\ buffer # <<>>

(* the emit test without the floor: any non-empty buffer would be emitted *)
ShouldEmitNonEmpty(buffer) == CountTokensJoined(buffer) > 0

(* count_tokens(chunk_text) >= MIN_TOKENS *)
ShouldEmit(buffer) == CountTokensJoined(buffer) >= MIN_TOKENS

(* the overlap taken one unit short: chunk_buffer[-1:] *)
OverlapOfOne(buffer) ==
  IF buffer = <<>> THEN buffer ELSE SubSeq(buffer, Len(buffer), Len(buffer))

(* chunk_buffer[-OVERLAP_SENTENCES:] *)
OverlapOf(buffer) ==
  IF Len(buffer) <= OVERLAP_SENTENCES THEN buffer
  ELSE SubSeq(buffer, Len(buffer) - OVERLAP_SENTENCES + 1, Len(buffer))

(* a close in the sentence branch that leaves the running total as it was *)
(* when the buffer is reseeded with the overlap                            *)
CloseSentenceStale(buffer, tokens) ==
  IF ShouldEmit(buffer)
  THEN [emit |-> TRUE, buffer |-> OverlapOf(buffer), tokens |-> tokens]
  ELSE [emit |-> FALSE, buffer |-> <<>>, tokens |-> 0]

(* the buffer and running total after a close in the sentence branch *)
CloseSentence(buffer, tokens) ==
  IF ShouldEmit(buffer)
  THEN [emit |-> TRUE, buffer |-> OverlapOf(buffer), tokens |-> SumTok(OverlapOf(buffer))]
  ELSE [emit |-> FALSE, buffer |-> <<>>, tokens |-> 0]

(* the buffer and running total after a close in the paragraph branch *)
CloseParagraph(buffer, tokens) ==
  IF ShouldEmit(buffer)
  THEN [emit |-> TRUE, buffer |-> OverlapOf(buffer), tokens |-> SumTok(OverlapOf(buffer))]
  ELSE [emit |-> FALSE, buffer |-> buffer, tokens |-> tokens]

(* the counter left where it is after an emit *)
NextIndexStuck(idx) == idx

(* chunk_index += 1 *)
NextIndex(idx) == idx + 1

(***************************************************************************)
(* create_chunk.  The text of a chunk is the metadata prefix followed by   *)
(* the body; it is kept as the pair of the two, the prefix as the string   *)
(* the code builds and the body as the units joined.  A section heading is *)
(* the name of its line, and "" when the text has no heading.              *)
(***************************************************************************)
(* line 185: the base name of the i-th text file *)
FileName(i) == "doc" \o ToString(i) \o ".txt"

(* lines 159-162 *)
metadata_prefix(fname, idx, section_heading) ==
  "[Document: " \o fname \o "]\n"
  \o (IF section_heading # "" THEN "[Section: " \o section_heading \o "]\n" ELSE "")
  \o "[Chunk Index: " \o ToString(idx) \o "]\n\n"

(* the tokens of a prefix: each of its lines has some *)
PrefixTokens(fname, idx, section_heading) ==
  IF section_heading # "" THEN 3 ELSE 2

(* the count taken on the stamped text, prefix included *)
TokenCountStamped(body, fname, idx, section_heading) ==
  PrefixTokens(fname, idx, section_heading) + CountTokensJoined(body)

(* line 157: count_tokens(text), taken before the prefix is built *)
TokenCount(body, fname, idx, section_heading) == CountTokensJoined(body)

(* the record with chunk_index left out of the prefix *)
create_chunk_unstamped(body, fname, idx, section_heading, lang) ==
  [filename |-> fname,
   chunk_index |-> idx,
   text |-> << "[Document: " \o fname \o "]\n\n", body >>,
   token_count |-> TokenCount(body, fname, idx, section_heading),
   section_heading |-> section_heading,
   language |-> lang]

(* lines 155-173 *)
create_chunk(body, fname, idx, section_heading, lang) ==
  [filename |-> fname,
   chunk_index |-> idx,
   text |-> << metadata_prefix(fname, idx, section_heading), body >>,
   token_count |-> TokenCount(body, fname, idx, section_heading),
   section_heading |-> section_heading,
   language |-> lang]

(* the body of a chunk: its text after the prefix *)
Body(c) == c.text[2]

Units(buffer) == { buffer[i] : i \in 1..Len(buffer) }

(* What a close or flush that gave the result r did to buffer, as history. *)
Gone(buffer, r) ==
  IF r.emit THEN {}
  ELSE { [unit |-> x, buftok |-> CountTokensJoined(buffer)] : x \in Units(buffer) \ Units(r.buffer) }

(* the unit that closed a buffer left out of the buffer that follows *)
AfterCloseOverlapOnly(r, u) == r.buffer

(* lines 125, 140: the unit is appended to what the close left *)
AfterClose(r, u) == Append(r.buffer, u)

(* One unit u through the packing rule, close being the branch's close. *)
PackUnit(u, closing, r) ==
  /\ chunks' = IF closing /\ r.emit
               THEN Append(chunks, create_chunk(chunk_buffer, filename, chunk_index,
                                                sections[sec].heading, language))
               ELSE chunks
  /\ emits' = IF closing /\ r.emit
              THEN Append(emits, [sec |-> sec, closed_by |-> u, discards |-> discards,
                                  counted |-> CountTokensJoined(chunk_buffer),
                                  buffer |-> chunk_buffer])
              ELSE emits
  /\ chunk_index' = IF closing /\ r.emit THEN NextIndex(chunk_index) ELSE chunk_index
  /\ overlap_sentences' = IF closing /\ r.emit THEN r.buffer ELSE overlap_sentences
  /\ chunk_buffer' = IF closing THEN AfterClose(r, u) ELSE Append(chunk_buffer, u)
  /\ chunk_tokens' = IF closing THEN r.tokens + u.tok ELSE chunk_tokens + u.tok
  /\ lost' = IF closing THEN lost \cup Gone(chunk_buffer, r) ELSE lost
  /\ discards' = IF closing /\ Gone(chunk_buffer, r) # {} THEN discards + 1 ELSE discards

(***************************************************************************)
(* chunk_text, step by step.                                               *)
(***************************************************************************)
ChunkInit ==
  /\ IsText(text)
  /\ filename = FileName(1)
  /\ language = ""
  /\ pc = "start"
  /\ heading_indices = <<>>
  /\ sections = <<>>
  /\ sec = 0
  /\ paragraphs = <<>>
  /\ sentences = <<>>
  /\ chunk_buffer = <<>>
  /\ chunk_tokens = 0
  /\ overlap_sentences = <<>>
  /\ chunks = <<>>
  /\ chunk_index = 0
  /\ lost = {}
  /\ discards = 0
  /\ emits = <<>>
  /\ CleanIdle
  /\ BuildIdle
  /\ CompareIdle
  /\ ExtractIdle
  /\ MainIdle

(* the counter taken over from where an earlier call left it *)
StartIndexKept(left) == left

(* line 96: chunk_index = 0, whatever an earlier call left *)
StartIndex(left) == 0

(* the buffer taken over from the section or the call before *)
StartBufferKept(left) == left

(* line 100: chunk_buffer = [], whatever the section or the call before left *)
StartBuffer(left) == <<>>

(* lines 78-96: language, headings, sections, chunks = [], chunk_index = 0 *)
Segment ==
  /\ UNCHANGED <<cleanVars, buildVars, compareVars, extractVars, mainVars>>
  /\ pc = "start"
  /\ language' = detect_language(text)
  /\ heading_indices' = detect_headings(text)
  /\ sections' = BuildSections(text, heading_indices')
  /\ sec' = 1
  /\ chunks' = <<>>
  /\ chunk_index' = StartIndex(chunk_index)
  /\ pc' = "section"
  /\ UNCHANGED <<text, filename, paragraphs, sentences, chunk_buffer, chunk_tokens,
                 overlap_sentences, lost, discards, emits>>

(* lines 98-102: the next section, with an empty buffer *)
BeginSection ==
  /\ UNCHANGED <<cleanVars, buildVars, compareVars, extractVars, mainVars>>
  /\ pc = "section"
  /\ sec <= Len(sections)
  /\ paragraphs' = split_paragraphs(text, sections[sec].start, sections[sec].end)
  /\ chunk_buffer' = StartBuffer(chunk_buffer)
  /\ chunk_tokens' = 0
  /\ overlap_sentences' = <<>>
  /\ pc' = "para"
  /\ UNCHANGED <<text, filename, language, heading_indices, sections, sec, sentences, chunks,
                 chunk_index, lost, discards, emits>>

(* lines 104-108: a paragraph over MAX_TOKENS is exploded into sentences *)
ExplodeParagraph ==
  /\ UNCHANGED <<cleanVars, buildVars, compareVars, extractVars, mainVars>>
  /\ pc = "para"
  /\ paragraphs # <<>>
  /\ ParaTokens(text, Head(paragraphs)) > MAX_TOKENS
  /\ sentences' = split_sentences(text, Head(paragraphs))
  /\ paragraphs' = Tail(paragraphs)
  /\ pc' = IF sentences' = <<>> THEN "para" ELSE "sent"
  /\ UNCHANGED <<text, filename, language, heading_indices, sections, sec, chunk_buffer, chunk_tokens,
                 overlap_sentences, chunks, chunk_index, lost, discards, emits>>

(* lines 109-126: one sentence of the exploded paragraph *)
SentenceStep ==
  /\ UNCHANGED <<cleanVars, buildVars, compareVars, extractVars, mainVars>>
  /\ pc = "sent"
  /\ sentences # <<>>
  /\ LET u == Head(sentences)
     IN  PackUnit(u, ShouldClose(chunk_tokens, u, chunk_buffer),
                  CloseSentence(chunk_buffer, chunk_tokens))
  /\ sentences' = Tail(sentences)
  /\ pc' = IF sentences' = <<>> THEN "para" ELSE "sent"
  /\ UNCHANGED <<text, filename, language, heading_indices, sections, sec, paragraphs>>

(* lines 104-106, 127-141: one paragraph of at most MAX_TOKENS *)
ParagraphStep ==
  /\ UNCHANGED <<cleanVars, buildVars, compareVars, extractVars, mainVars>>
  /\ pc = "para"
  /\ paragraphs # <<>>
  /\ ParaTokens(text, Head(paragraphs)) <= MAX_TOKENS
  /\ LET u == ParaUnit(text, Head(paragraphs))
     IN  PackUnit(u, ShouldClose(chunk_tokens, u, chunk_buffer),
                  CloseParagraph(chunk_buffer, chunk_tokens))
  /\ paragraphs' = Tail(paragraphs)
  /\ UNCHANGED <<text, filename, language, pc, heading_indices, sections, sec, sentences>>

(* the end of a section without the flush: the last buffer is never emitted *)
FlushDropped(buffer) == [emit |-> FALSE, buffer |-> <<>>, tokens |-> 0]

(* the end of a section with every non-empty buffer emitted *)
FlushAlways(buffer) == [emit |-> buffer # <<>>, buffer |-> <<>>, tokens |-> 0]

(* the buffer's fate at the end of the section *)
Flush(buffer) ==
  [emit |-> buffer # <<>> /\ ShouldEmit(buffer), buffer |-> <<>>, tokens |-> 0]

(* lines 143-150: the end-of-section flush *)
FlushSection ==
  /\ UNCHANGED <<cleanVars, buildVars, compareVars, extractVars, mainVars>>
  /\ pc = "para"
  /\ paragraphs = <<>>
  /\ LET r == Flush(chunk_buffer)
     IN  /\ chunks' = IF r.emit
                      THEN Append(chunks, create_chunk(chunk_buffer, filename, chunk_index,
                                                       sections[sec].heading, language))
                      ELSE chunks
         /\ emits' = IF r.emit
                     THEN Append(emits, [sec |-> sec, closed_by |-> NoUnit, discards |-> discards,
                                         counted |-> CountTokensJoined(chunk_buffer),
                                         buffer |-> chunk_buffer])
                     ELSE emits
         /\ chunk_index' = IF r.emit THEN NextIndex(chunk_index) ELSE chunk_index
         /\ lost' = lost \cup Gone(chunk_buffer, r)
         /\ discards' = IF Gone(chunk_buffer, r) # {} THEN discards + 1 ELSE discards
  /\ sec' = sec + 1
  /\ pc' = "section"
  /\ UNCHANGED <<text, filename, language, heading_indices, sections, paragraphs, sentences,
                 chunk_buffer, chunk_tokens, overlap_sentences>>

(* line 152: return chunks *)
Return ==
  /\ UNCHANGED <<cleanVars, buildVars, compareVars, extractVars, mainVars>>
  /\ pc = "section"
  /\ sec > Len(sections)
  /\ pc' = "done"
  /\ UNCHANGED <<text, filename, language, heading_indices, sections, sec, paragraphs, sentences,
                 chunk_buffer, chunk_tokens, overlap_sentences, chunks,
                 chunk_index, lost, discards, emits>>

ChunkNext ==
  \/ Segment
  \/ BeginSection
  \/ ExplodeParagraph
  \/ SentenceStep
  \/ ParagraphStep
  \/ FlushSection
  \/ Return

Init == ChunkInit

Next == ChunkNext

Spec == Init /\ [][Next]_vars

(* chunk_text once more, for the properties that go section by section *)
SpecSections == ChunkInit /\ [][ChunkNext]_vars

(***************************************************************************)
(* Helpers of the properties.                                              *)
(***************************************************************************)
(* u comes before v in the text *)
Before(u, v) == u.line < v.line \/ (u.line = v.line /\ u.frag < v.frag)

(* the last k elements of s, or all of s when it has fewer *)
LastUnits(s, k) == [j \in 1..(IF Len(s) < k THEN Len(s) ELSE k) |->
                      s[Len(s) - (IF Len(s) < k THEN Len(s) ELSE k) + j]]

(* the first k elements of s, or all of s when it has fewer *)
FirstUnits(s, k) == [j \in 1..(IF Len(s) < k THEN Len(s) ELSE k) |-> s[j]]

(* the unit at the head of the packing rule, when there is one *)
Arriving ==
  IF pc = "sent" /\ sentences # <<>> THEN Head(sentences)
  ELSE IF pc = "para" /\ paragraphs # <<>> /\ ParaTokens(text, Head(paragraphs)) <= MAX_TOKENS
       THEN ParaUnit(text, Head(paragraphs))
       ELSE NoUnit

(* the units of a section, in the order the packing rule receives them *)
RECURSIVE UnitsOfParas(_, _)
UnitsOfParas(lines, ps) ==
  IF ps = <<>> THEN <<>>
  ELSE (IF ParaTokens(lines, Head(ps)) > MAX_TOKENS
        THEN split_sentences(lines, Head(ps))
        ELSE << ParaUnit(lines, Head(ps)) >>)
       \o UnitsOfParas(lines, Tail(ps))

SectionUnits(s) == UnitsOfParas(text, split_paragraphs(text, sections[s].start, sections[s].end))

(***************************************************************************)
(* C1: the chunk_index values of the emitted chunks are 0, 1, 2, ... in    *)
(* emission order, and the counter equals the number of chunks emitted: it *)
(* is not reset by a section and not advanced by a discarded buffer.       *)
(***************************************************************************)
C1_ChunkIndexSequential ==
  /\ \A i \in 1..Len(chunks) : chunks[i].chunk_index = i - 1
  /\ chunk_index = Len(chunks)

(* two chunks of two sections, a buffer having been discarded before the second *)
C1_Witness ==
  /\ pc = "done"
  /\ Len(chunks) >= 2
  /\ emits[1].sec # emits[2].sec
  /\ emits[2].discards > 0

(***************************************************************************)
(* C2: every emitted chunk records at least MIN_TOKENS tokens and has a    *)
(* non-empty body.                                                         *)
(***************************************************************************)
C2_EmittedAtLeastMin ==
  \A i \in 1..Len(chunks) :
    chunks[i].token_count >= MIN_TOKENS /\ Body(chunks[i]) # <<>>

(* a chunk emitted at an overflow close and one emitted at the flush *)
C2_Witness ==
  /\ \E i \in 1..Len(chunks) : emits[i].closed_by # NoUnit
  /\ \E i \in 1..Len(chunks) : emits[i].closed_by = NoUnit

(***************************************************************************)
(* C3: the body of every emitted chunk totals at most MAX_TOKENS, unless   *)
(* it is a single unit that alone exceeds MAX_TOKENS.                      *)
(***************************************************************************)
C3_BodyWithinMax ==
  \A i \in 1..Len(chunks) :
    \/ SumTok(Body(chunks[i])) <= MAX_TOKENS
    \/ Len(Body(chunks[i])) = 1 /\ Body(chunks[i])[1].tok > MAX_TOKENS

(***************************************************************************)
(* C4: of two consecutive chunks of one section with no discard between    *)
(* them, the later starts with the last min(OVERLAP_SENTENCES, n) units of *)
(* the earlier, then the unit whose arrival closed the earlier.            *)
(***************************************************************************)
C4_OverlapCarried ==
  \A i \in 1..(Len(chunks) - 1) :
    (emits[i].sec = emits[i + 1].sec /\ emits[i].discards = emits[i + 1].discards)
    => LET ov == LastUnits(Body(chunks[i]), OVERLAP_SENTENCES)
       IN  /\ emits[i].closed_by # NoUnit
           /\ FirstUnits(Body(chunks[i + 1]), Len(ov) + 1) = ov \o << emits[i].closed_by >>

(* such a pair, the earlier chunk having more units than the overlap *)
C4_Witness ==
  \E i \in 1..(Len(chunks) - 1) :
    /\ emits[i].sec = emits[i + 1].sec
    /\ emits[i].discards = emits[i + 1].discards
    /\ Len(Body(chunks[i])) > OVERLAP_SENTENCES

(***************************************************************************)
(* C5: when a unit arrives that would overflow a non-empty buffer whose    *)
(* own token count is below MIN_TOKENS, the buffer is discarded: nothing   *)
(* is emitted, and the unit is appended to an empty buffer with total 0.   *)
(***************************************************************************)
C5_DiscardUnderMin ==
  [][ ( /\ Arriving # NoUnit
        /\ ShouldClose(chunk_tokens, Arriving, chunk_buffer)
        /\ CountTokensJoined(chunk_buffer) < MIN_TOKENS )
      => ( /\ chunks' = chunks
           /\ chunk_buffer' = << Arriving >>
           /\ chunk_tokens' = Arriving.tok ) ]_vars

(***************************************************************************)
(* C6: once the sections are built, every line of the text belongs to      *)
(* exactly one section, and each section starts where the one before ends. *)
(***************************************************************************)
C6_SectionsCoverLines ==
  pc # "start" =>
    /\ \A i \in 1..Len(text) :
         Cardinality({ s \in 1..Len(sections) :
                         sections[s].start <= i /\ i < sections[s].end }) = 1
    /\ \A s \in 1..(Len(sections) - 1) : sections[s].end = sections[s + 1].start

(***************************************************************************)
(* C7: when chunk_text returns, every unit of every section is in the body *)
(* of an emitted chunk, unless it was in a buffer below MIN_TOKENS when    *)
(* that buffer was closed or flushed; and the units are in text order      *)
(* within each body and from one chunk to the next.                        *)
(***************************************************************************)
C7_UnitsCovered ==
  /\ pc = "done" =>
       \A s \in 1..Len(sections) : \A k \in 1..Len(SectionUnits(s)) :
         LET u == SectionUnits(s)[k]
         IN  \/ \E i \in 1..Len(chunks) : u \in Units(Body(chunks[i]))
             \/ \E l \in lost : l.unit = u /\ l.buftok < MIN_TOKENS
  /\ \A i \in 1..Len(chunks) : \A j \in 1..(Len(Body(chunks[i])) - 1) :
       Before(Body(chunks[i])[j], Body(chunks[i])[j + 1])
  /\ \A i \in 1..(Len(chunks) - 1) :
       LET a == Body(chunks[i])
           b == Body(chunks[i + 1])
       IN  Before(a[Len(a)], b[Len(b)]) /\ ~Before(b[1], a[1])

(* a run that emitted two chunks and also gave up a buffer below MIN_TOKENS *)
C7_Witness ==
  /\ pc = "done"
  /\ Len(chunks) >= 2
  /\ lost # {}

(***************************************************************************)
(***************************************************************************)
(* extract_text.py: clean_text.                                            *)
(***************************************************************************)
(***************************************************************************)
SHORT_LINE_LEN == 50

(* the bound: the number of lines of a document, all pages together *)
MaxDocLines == 4

NL == "\n"

(* what str.strip() takes off within a line *)
Blanks == {" ", "\t"}

Digits == {"0", "1", "2", "3", "4", "5", "6", "7", "8", "9"}

(***************************************************************************)
(* The lines the pages are made of.                                        *)
(***************************************************************************)
LineHeader == <<"H", "e", "a", "d", "e", "r">>
LineHeaderPadded == <<" ", "H", "e", "a", "d", "e", "r", " ">>
LineBody == <<"B", "o", "d", "y", " ", " ", "A", ".">>
LineLong == [i \in 1..SHORT_LINE_LEN |-> "x"]
(* as long as LineLong, with a run of two spaces in the middle *)
LineLongSpaced == [i \in 1..SHORT_LINE_LEN |-> IF i \in {25, 26} THEN " " ELSE "x"]
LinePageNo == <<"p", "A", "G", "E", " ", "1", "2">>
LineEmpty == <<>>

RawLines ==
  {LineHeader, LineHeaderPadded, LineBody, LineLong, LineLongSpaced, LinePageNo, LineEmpty}

(* sep.join(parts) *)
RECURSIVE Join(_, _)
Join(parts, sep) ==
  IF parts = <<>> THEN <<>>
  ELSE IF Len(parts) = 1 THEN parts[1]
  ELSE parts[1] \o sep \o Join(Tail(parts), sep)

(* the least element of a non-empty set of numbers *)
Least(S) == CHOOSE i \in S : \A j \in S : i <= j

(* s.split(sep) for a one-character sep *)
RECURSIVE Split(_, _)
Split(s, sep) ==
  LET at == { i \in 1..Len(s) : s[i] = sep }
  IN  IF at = {} THEN <<s>>
      ELSE << SubSeq(s, 1, Least(at) - 1) >> \o Split(SubSeq(s, Least(at) + 1, Len(s)), sep)

SplitLines(s) == Split(s, NL)

RECURSIVE StripLeft(_)
StripLeft(s) == IF s # <<>> /\ Head(s) \in Blanks \cup {NL} THEN StripLeft(Tail(s)) ELSE s

RECURSIVE StripRight(_)
StripRight(s) ==
  IF s # <<>> /\ s[Len(s)] \in Blanks \cup {NL} THEN StripRight(SubSeq(s, 1, Len(s) - 1)) ELSE s

(* line.strip() *)
Strip(s) == StripRight(StripLeft(s))

(* the stripped lines of one page, in order *)
StrippedLines(page_text) ==
  LET ls == SplitLines(page_text) IN [i \in 1..Len(ls) |-> Strip(ls[i])]

(***************************************************************************)
(* The documents: up to MaxDocLines lines, cut into pages.                 *)
(***************************************************************************)
(* the lines ls cut into pages after the positions in cuts *)
RECURSIVE CutPages(_, _, _, _)
CutPages(ls, cuts, i, cur) ==
  IF i > Len(ls) THEN << Join(cur, <<NL>>) >>
  ELSE IF (i - 1) \in cuts
       THEN << Join(cur, <<NL>>) >> \o CutPages(ls, cuts, i + 1, << ls[i] >>)
       ELSE CutPages(ls, cuts, i + 1, Append(cur, ls[i]))

(* page_texts is one of the documents *)
IsDocument(pages) ==
  \E n \in 1..MaxDocLines :
    \E ls \in [1..n -> RawLines] :
      \E cuts \in SUBSET (1..(n - 1)) :
        pages = CutPages(ls, cuts, 2, << ls[1] >>)

(***************************************************************************)
(* lines 64-70: the frequency table of the stripped lines under 50         *)
(* characters, every occurrence counted.                                   *)
(***************************************************************************)
RECURSIVE AllStripped(_)
AllStripped(pages) ==
  IF pages = <<>> THEN <<>> ELSE StrippedLines(Head(pages)) \o AllStripped(Tail(pages))

CountLines(pages) ==
  LET all == AllStripped(pages)
      short == { all[i] : i \in { j \in 1..Len(all) : Len(all[j]) < SHORT_LINE_LEN } }
  IN  [l \in short |-> Cardinality({ i \in 1..Len(all) : all[i] = l })]

(* count > len(page_texts) *)
OverThresholdAllPages(count, npages) == count > npages

(* lines 73-75: count > len(page_texts) * 0.5 *)
OverThreshold(count, npages) == 2 * count > npages

HeadersFooters(counts, npages) ==
  { l \in DOMAIN counts : OverThreshold(counts[l], npages) }

(***************************************************************************)
(* line 88: re.match(r'^(Page\s*\d+|<arabic page>\s*\d+)$', line,         *)
(* re.IGNORECASE); the four letters of the Arabic word are named.          *)
(***************************************************************************)
WordPage == <<"p", "a", "g", "e">>
WordSafha == <<"sad", "fa", "hah", "teh_marbuta">>

Lower(c) ==
  IF c = "P" THEN "p" ELSE IF c = "A" THEN "a" ELSE IF c = "G" THEN "g"
  ELSE IF c = "E" THEN "e" ELSE c

StartsWithWord(line, w) ==
  Len(line) >= Len(w) /\ \A i \in 1..Len(w) : Lower(line[i]) = w[i]

(* \s*\d+ to the end of the line *)
BlanksThenDigits(r) ==
  \E k \in 0..(Len(r) - 1) :
    /\ \A i \in 1..k : r[i] \in Blanks \cup {NL}
    /\ \A i \in (k + 1)..Len(r) : r[i] \in Digits

IsPageNumber(line) ==
  \E w \in {WordPage, WordSafha} :
    StartsWithWord(line, w) /\ BlanksThenDigits(SubSeq(line, Len(w) + 1, Len(line)))

(***************************************************************************)
(* lines 78-92: the lines kept of one page, joined by newlines.            *)
(***************************************************************************)
KeepLine(line, hf) == line \notin hf /\ ~IsPageNumber(line) /\ line # <<>>

RECURSIVE Filter(_, _)
Filter(ls, hf) ==
  IF ls = <<>> THEN <<>>
  ELSE (IF KeepLine(Head(ls), hf) THEN << Head(ls) >> ELSE <<>>) \o Filter(Tail(ls), hf)

CleanPage(page_text, hf) == Join(Filter(StrippedLines(page_text), hf), <<NL>>)

(***************************************************************************)
(* lines 95-97: pages joined by a blank line, runs of spaces made one      *)
(* space, and white space holding three newlines or more made two.         *)
(***************************************************************************)
(* re.sub(r' +', ' ', s) *)
RECURSIVE CollapseSpaces(_)
CollapseSpaces(s) ==
  LET at == { i \in 1..(Len(s) - 1) : s[i] = " " /\ s[i + 1] = " " }
  IN  IF at = {} THEN s
      ELSE SubSeq(s, 1, Least(at) - 1) \o CollapseSpaces(SubSeq(s, Least(at) + 1, Len(s)))

(* the length of the longest prefix of s made of white space *)
RECURSIVE WhiteRun(_)
WhiteRun(s) ==
  IF s # <<>> /\ Head(s) \in Blanks \cup {NL} THEN 1 + WhiteRun(Tail(s)) ELSE 0

(* re.sub(r'\n\s*\n\s*\n+', '\n\n', s): a match starts at a newline and runs *)
(* to the last newline of the white space there, if that holds three       *)
RECURSIVE CollapseNewlines(_)
CollapseNewlines(s) ==
  LET at == { i \in 1..Len(s) : s[i] = NL }
  IN  IF at = {} THEN s
      ELSE LET first == Least(at)
               rest == SubSeq(s, first, Len(s))
               run == WhiteRun(rest)
               nls == { i \in 1..run : rest[i] = NL }
               last == CHOOSE i \in nls : \A j \in nls : j <= i
           IN  SubSeq(s, 1, first - 1)
               \o (IF Cardinality(nls) >= 3
                   THEN <<NL, NL>> \o CollapseNewlines(SubSeq(rest, last + 1, Len(rest)))
                   ELSE <<NL>> \o CollapseNewlines(Tail(rest)))

NormalizeWhitespace(pages) ==
  CollapseNewlines(CollapseSpaces(Join(pages, <<NL, NL>>)))

(***************************************************************************)
(* clean_text, step by step.                                               *)
(***************************************************************************)
CleanInit ==
  /\ IsDocument(page_texts)
  /\ cpc = "count"
  /\ line_counts = <<>>
  /\ headers_footers = {}
  /\ cleaned_pages = <<>>
  /\ full_text = <<>>
  /\ ChunkIdle
  /\ BuildIdle
  /\ CompareIdle
  /\ ExtractIdle
  /\ MainIdle

(* lines 64-70 *)
CountShortLines ==
  /\ UNCHANGED <<chunkVars, buildVars, compareVars, extractVars, mainVars>>
  /\ cpc = "count"
  /\ line_counts' = CountLines(page_texts)
  /\ cpc' = "threshold"
  /\ UNCHANGED <<page_texts, headers_footers, cleaned_pages, full_text>>

(* lines 73-75 *)
FindHeadersFooters ==
  /\ UNCHANGED <<chunkVars, buildVars, compareVars, extractVars, mainVars>>
  /\ cpc = "threshold"
  /\ headers_footers' = HeadersFooters(line_counts, Len(page_texts))
  /\ cpc' = "remove"
  /\ UNCHANGED <<page_texts, line_counts, cleaned_pages, full_text>>

(* lines 78-92 *)
RemoveLines ==
  /\ UNCHANGED <<chunkVars, buildVars, compareVars, extractVars, mainVars>>
  /\ cpc = "remove"
  /\ cleaned_pages' = [p \in 1..Len(page_texts) |-> CleanPage(page_texts[p], headers_footers)]
  /\ cpc' = "join"
  /\ UNCHANGED <<page_texts, line_counts, headers_footers, full_text>>

(* lines 95-99 *)
JoinAndNormalize ==
  /\ UNCHANGED <<chunkVars, buildVars, compareVars, extractVars, mainVars>>
  /\ cpc = "join"
  /\ full_text' = NormalizeWhitespace(cleaned_pages)
  /\ cpc' = "done"
  /\ UNCHANGED <<page_texts, line_counts, headers_footers, cleaned_pages>>

CleanNext ==
  \/ CountShortLines
  \/ FindHeadersFooters
  \/ RemoveLines
  \/ JoinAndNormalize

SpecClean == CleanInit /\ [][CleanNext]_vars

(***************************************************************************)
(* What the properties of clean_text speak of.                             *)
(***************************************************************************)
(* the number of pages the stripped line occurs on *)
PageFrequency(l) ==
  Cardinality({ p \in 1..Len(page_texts) :
                  \E i \in 1..Len(StrippedLines(page_texts[p])) :
                    StrippedLines(page_texts[p])[i] = l })

(* a short line on more than half of the pages *)
Boilerplate(l) ==
  Len(l) < SHORT_LINE_LEN /\ 2 * PageFrequency(l) > Len(page_texts)

InputLines == { AllStripped(page_texts)[i] : i \in 1..Len(AllStripped(page_texts)) }

(* the lines to keep, in page and line order, as they read once spaces are made one *)
RECURSIVE KeptLines(_)
KeptLines(ls) ==
  IF ls = <<>> THEN <<>>
  ELSE (IF ~Boilerplate(Head(ls)) /\ ~IsPageNumber(Head(ls)) /\ Head(ls) # <<>>
        THEN << CollapseSpaces(Head(ls)) >> ELSE <<>>)
       \o KeptLines(Tail(ls))

(* the non-empty lines of the cleaned text *)
OutputLines == SelectSeq(SplitLines(full_text), LAMBDA l : l # <<>>)

(***************************************************************************)
(* C8: the cleaned text holds no line that is short and on more than half  *)
(* of the pages, and holds every other line that is neither a page number  *)
(* nor empty, in page and line order.                                      *)
(***************************************************************************)
C8_BoilerplateRemovedRestKept ==
  cpc = "done" => OutputLines = KeptLines(AllStripped(page_texts))

(***************************************************************************)
(* C9: a non-empty line on at most half of the pages is never taken for    *)
(* boilerplate, however often it is repeated within its pages.             *)
(***************************************************************************)
C9_PageFrequencyDecides ==
  cpc \in {"remove", "join", "done"} =>
    \A l \in InputLines :
      (l # <<>> /\ 2 * PageFrequency(l) <= Len(page_texts)) => l \notin headers_footers

(***************************************************************************)
(***************************************************************************)
(* build_final_texts.py.                                                   *)
(***************************************************************************)
(***************************************************************************)
(* the bound: the number of PDFs in PDF_DIR *)
MaxDocs == 2

(* METHOD_DIRS, in the order of the dictionary *)
MethodOrder == <<"method1", "method2", "method3">>

Methods == { MethodOrder[i] : i \in 1..Len(MethodOrder) }

(* a path of a directory: no file there, or a file and its text *)
NoFile == [exists |-> FALSE, text |-> <<>>]

File(t) == [exists |-> TRUE, text |-> t]

(* what a method's text file may hold *)
FileTexts ==
  { <<>>,
    <<" ", NL>>,
    <<"a">>,
    <<"a", " ", " ", "b">>,
    <<"c", NL, "d">> }

FileContents == { File(t) : t \in FileTexts } \cup {NoFile}

(* lines 19-24 *)
read_text_if_exists(file) == IF ~file.exists THEN <<>> ELSE file.text

(* lines 27-29: len(text.split()) if text else 0 *)
count_words(t) ==
  IF t = <<>> THEN 0
  ELSE Cardinality({ i \in 1..Len(t) :
                       /\ t[i] \notin Blanks \cup {NL}
                       /\ (i = 1 \/ t[i - 1] \in Blanks \cup {NL}) })

(* lines 44-52 *)
Candidates(disk) ==
  [m \in Methods |->
     [text |-> read_text_if_exists(disk[m]),
      words |-> count_words(read_text_if_exists(disk[m]))]]

(* the choice with >= for >: the last of the largest would be kept *)
RECURSIVE MaxFromLast(_, _, _)
MaxFromLast(cands, i, best) ==
  IF i > Len(MethodOrder) THEN best
  ELSE MaxFromLast(cands, i + 1,
                   IF cands[MethodOrder[i]].words >= cands[best].words
                   THEN MethodOrder[i] ELSE best)

BestMethodLast(cands) == MaxFromLast(cands, 2, MethodOrder[1])

(* line 55: max(candidates.items(), key=words) keeps the first of the largest *)
RECURSIVE MaxFrom(_, _, _)
MaxFrom(cands, i, best) ==
  IF i > Len(MethodOrder) THEN best
  ELSE MaxFrom(cands, i + 1,
               IF cands[MethodOrder[i]].words > cands[best].words
               THEN MethodOrder[i] ELSE best)

BestMethod(cands) == MaxFrom(cands, 2, MethodOrder[1])

BuildInit ==
  /\ pdf_files \in 0..MaxDocs
  /\ bi = 0
  /\ candidates = <<>>
  /\ final_files = [d \in 1..pdf_files |-> NoFile]
  /\ printed = <<>>
  /\ bpc = "loop"
  /\ ChunkIdle
  /\ CleanIdle
  /\ CompareIdle
  /\ ExtractIdle
  /\ MainIdle

(* lines 37-52: the next PDF, and what the three method directories hold for it *)
ReadCandidates ==
  /\ UNCHANGED <<chunkVars, cleanVars, compareVars, extractVars, mainVars>>
  /\ bpc = "loop"
  /\ bi < pdf_files
  /\ bi' = bi + 1
  /\ \E disk \in [Methods -> FileContents] : candidates' = Candidates(disk)
  /\ bpc' = "pick"
  /\ UNCHANGED <<pdf_files, final_files, printed>>

(* lines 55-60: no method has a word: the PDF is skipped *)
SkipDocument ==
  /\ UNCHANGED <<chunkVars, cleanVars, compareVars, extractVars, mainVars>>
  /\ bpc = "pick"
  /\ candidates[BestMethod(candidates)].words = 0
  /\ printed' = Append(printed, [doc |-> bi, what |-> "skipping", method |-> "none"])
  /\ bpc' = "loop"
  /\ UNCHANGED <<pdf_files, bi, candidates, final_files>>

(* lines 55-67: the text of the best method is written to FINAL_DIR *)
WriteFinal ==
  /\ UNCHANGED <<chunkVars, cleanVars, compareVars, extractVars, mainVars>>
  /\ bpc = "pick"
  /\ candidates[BestMethod(candidates)].words # 0
  /\ final_files' = [final_files EXCEPT ![bi] = File(candidates[BestMethod(candidates)].text)]
  /\ printed' = Append(printed, [doc |-> bi, what |-> "chosen", method |-> BestMethod(candidates)])
  /\ bpc' = "loop"
  /\ UNCHANGED <<pdf_files, bi, candidates>>

(* line 69 *)
FinishBuild ==
  /\ UNCHANGED <<chunkVars, cleanVars, compareVars, extractVars, mainVars>>
  /\ bpc = "loop"
  /\ bi = pdf_files
  /\ bpc' = "done"
  /\ UNCHANGED <<pdf_files, bi, candidates, final_files, printed>>

BuildNext ==
  \/ ReadCandidates
  \/ SkipDocument
  \/ WriteFinal
  \/ FinishBuild

SpecBuild == BuildInit /\ [][BuildNext]_vars

(***************************************************************************)
(* C10: for the PDF just handled, the method chosen has the largest word   *)
(* count and no method before it in the order method1, method2, method3    *)
(* has as many, and its text is the final file; when no method has a word  *)
(* the PDF is skipped and gets no final file; and the run handles every    *)
(* PDF, so a skip does not stop it.                                        *)
(***************************************************************************)
Rank(m) == CHOOSE i \in 1..Len(MethodOrder) : MethodOrder[i] = m

C10_BestMethodSelected ==
  /\ (bpc \in {"loop", "done"} /\ bi >= 1) =>
       /\ Len(printed) = bi
       /\ printed[bi].doc = bi
       /\ IF \A m \in Methods : candidates[m].words = 0
          THEN printed[bi].what = "skipping" /\ final_files[bi] = NoFile
          ELSE \E m \in Methods :
                 /\ \A o \in Methods : candidates[o].words <= candidates[m].words
                 /\ \A o \in Methods :
                      candidates[o].words = candidates[m].words => Rank(m) <= Rank(o)
                 /\ printed[bi].what = "chosen"
                 /\ printed[bi].method = m
                 /\ final_files[bi] = File(candidates[m].text)
  /\ bpc = "done" => Len(printed) = pdf_files

(* a run that skipped a PDF and then chose between two methods that tie with different texts *)
C10_Witness ==
  /\ bpc = "done"
  /\ Len(printed) >= 2
  /\ printed[1].what = "skipping"
  /\ printed[Len(printed)].what = "chosen"
  /\ \E m, o \in Methods :
       /\ m # o
       /\ candidates[m].words = candidates[o].words
       /\ candidates[m].text # candidates[o].text
       /\ \A x \in Methods : candidates[x].words <= candidates[m].words

(***************************************************************************)
(***************************************************************************)
(* compare_extraction_methods.py.                                          *)
(***************************************************************************)
(***************************************************************************)
(* the bound: the number of PDFs in PDF_DIR *)
MaxPdfs == 2

(* line 153: the word count under which full-document OCR is run *)
OCR_GATE_WORDS == 50

(* line 48: the length under which a page is sent to OCR by method 2 *)
OCR_PAGE_CHARS == 10

(* what a Python name may hold here: None, or a str *)
None == [none |-> TRUE, text |-> <<>>]

Str(t) == [none |-> FALSE, text |-> t]

(* "if text:" *)
Truthy(v) == ~v.none /\ v.text # <<>>

(* a text of n words *)
WordsText(n) == [i \in 1..(2 * n - 1) |-> IF i % 2 = 1 THEN "w" ELSE " "]

(***************************************************************************)
(* The PDFs.  A PDF opens or not (fitz.open throws); when it opens it has  *)
(* pages, each with its native text.  The OCR engine is absent, or fails   *)
(* on every page it is given, or fails on the first page only ("flaky"),   *)
(* or works and reads OcrPage on a page.                                   *)
(***************************************************************************)
PageEmpty == <<>>
Page9 == <<"x", "x", "x", "x", "x", "x", "x", "x", "x", NL>>
Page10 == <<"x", "x", "x", "x", "x", "x", "x", "x", "x", "x">>
PageShort == <<"H", "e", "a", "d", "e", "r">>
PageW30 == WordsText(30)
PageW50 == WordsText(50)
OcrPage == <<"o", "c", "r", " ", "o", "k">>

Unopenable == [opens |-> FALSE, pages |-> <<>>]

Pdf(pages) == [opens |-> TRUE, pages |-> pages]

PdfDocs ==
  { Unopenable,
    Pdf(<<PageEmpty>>),
    Pdf(<<PageW30>>),
    Pdf(<<PageW50>>),
    Pdf(<<PageW30, PageW50>>),
    Pdf(<<PageShort, PageW30>>),
    Pdf(<<Page9, Page10>>) }

OcrStates == {"absent", "fails", "flaky", "works"}

(* lines 50-53 (extract_text.py 49-55, here 84-97): OCR of page p throws *)
OcrFails(p, ocr) == ocr \in {"absent", "fails"} \/ (ocr = "flaky" /\ p = 1)

(* what OCR gives for page p where the code asks for it; the except        *)
(* branches put the empty string for a page on which it throws             *)
OcrRead(p, ocr) == IF OcrFails(p, ocr) THEN <<>> ELSE OcrPage

(* what an extractor gives back: a value, and whether an exception ended   *)
(* its work (an OCR failure on a page is handled for that page: its text   *)
(* is empty and the work goes on)                                          *)
Returned(v, threw) == [value |-> v, threw |-> threw]

(* lines 23-35 *)
extract_method1_pymupdf_text(doc) ==
  IF ~doc.opens THEN Returned(None, TRUE)
  ELSE Returned(Str(Join(doc.pages, <<NL, NL>>)), FALSE)

(* the page test with a page of 10 characters let through *)
NeedsOcrAtMost(page) == page = <<>> \/ Len(Strip(page)) <= OCR_PAGE_CHARS

(* line 48: not text or len(text.strip()) < 10 *)
NeedsOcr(page) == page = <<>> \/ Len(Strip(page)) < OCR_PAGE_CHARS

(* the page keeps its native text when OCR throws on it *)
Method2PageKept(page, p, ocr) ==
  IF NeedsOcr(page) /\ ~OcrFails(p, ocr) THEN OcrPage ELSE page

(* lines 46-53: the text of page p for method 2 *)
Method2Page(page, p, ocr) ==
  IF NeedsOcr(page) THEN OcrRead(p, ocr) ELSE page

(* lines 42-53: what method 2 does page by page: the text it takes for the *)
(* page and whether it called OCR on it                                    *)
Method2Pages(doc, ocr) ==
  [p \in 1..Len(doc.pages) |->
     [text |-> Method2Page(doc.pages[p], p, ocr), ocr_called |-> NeedsOcr(doc.pages[p])]]

(* lines 38-57 *)
extract_method2_pymupdf_ocr(doc, ocr) ==
  IF ~doc.opens THEN Returned(None, TRUE)
  ELSE Returned(Str(Join([p \in 1..Len(doc.pages) |-> Method2Pages(doc, ocr)[p].text],
                        <<NL, NL>>)),
                FALSE)

(* lines 60-102 *)
extract_method3_tesseract_ocr(doc, ocr) ==
  IF ~doc.opens THEN Returned(None, TRUE)
  ELSE IF ocr = "absent" THEN Returned(None, TRUE)
  ELSE Returned(Str(Join([p \in 1..Len(doc.pages) |-> OcrRead(p, ocr)],
                         <<NL, NL>>)),
                FALSE)

(* lines 118-120: a strategy's entry before it is run *)
EmptyEntry == [text |-> None, chars |-> 0, words |-> 0, error |-> None, success |-> FALSE]

(* lines 124-135 (138-149, 154-165): the entry after the strategy gave ret; *)
(* the extractors catch every exception themselves and give None, so the   *)
(* except branch that sets error is never entered                          *)
RunStrategy(entry, ret) ==
  IF Truthy(ret.value)
  THEN [entry EXCEPT !.text = ret.value,
                     !.chars = Len(ret.value.text),
                     !.words = count_words(ret.value.text),
                     !.success = Len(ret.value.text) > 0]
  ELSE entry

(* the gate with 50 words let through *)
ShouldRunOcrAtMost(words) == words <= OCR_GATE_WORDS

(* line 153: method1_words < 50 *)
ShouldRunOcr(words) == words < OCR_GATE_WORDS

(* lines 172-176: the files written when the write for method fail_at      *)
(* throws ("none": no write throws)                                        *)
RECURSIVE SavedFrom(_, _, _)
SavedFrom(res, i, fail_at) ==
  IF i > Len(MethodOrder) \/ MethodOrder[i] = fail_at THEN <<>>
  ELSE (IF Truthy(res[MethodOrder[i]].text) THEN << MethodOrder[i] >> ELSE <<>>)
       \o SavedFrom(res, i + 1, fail_at)

Saved(res, fail_at) ==
  LET done == SavedFrom(res, 1, fail_at)
  IN  [m \in Methods |->
         IF \E k \in 1..Len(done) : done[k] = m THEN File(res[m].text.text) ELSE NoFile]

(***************************************************************************)
(* generate_summary_report: the counts of the report.  The elapsed times   *)
(* are left out: the clock is not modelled.                                *)
(***************************************************************************)
RECURSIVE Total(_, _, _)
Total(all, m, field) ==
  IF all = <<>> THEN 0
  ELSE (IF Head(all)[m].success THEN Head(all)[m][field] ELSE 0) + Total(Tail(all), m, field)

(* lines 186-200 *)
Stats(all) ==
  [m \in Methods |->
     [success |-> Cardinality({ i \in 1..Len(all) : all[i][m].success }),
      total_chars |-> Total(all, m, "chars"),
      total_words |-> Total(all, m, "words"),
      errors |-> Cardinality({ i \in 1..Len(all) : Truthy(all[i][m].error) })]]

(* lines 249-253: max and min keep the first of the best *)
RECURSIVE FirstBest(_, _, _, _, _)
FirstBest(stats, field, most, i, best) ==
  IF i > Len(MethodOrder) THEN best
  ELSE FirstBest(stats, field, most, i + 1,
                 IF (most /\ stats[MethodOrder[i]][field] > stats[best][field])
                    \/ (~most /\ stats[MethodOrder[i]][field] < stats[best][field])
                 THEN MethodOrder[i] ELSE best)

Winners(stats) ==
  [success |-> FirstBest(stats, "success", TRUE, 2, MethodOrder[1]),
   total_chars |-> FirstBest(stats, "total_chars", TRUE, 2, MethodOrder[1]),
   total_words |-> FirstBest(stats, "total_words", TRUE, 2, MethodOrder[1]),
   errors |-> FirstBest(stats, "errors", FALSE, 2, MethodOrder[1])]

(* lines 181-276; the rates divide by total_pdfs *)
generate_summary_report(all) ==
  [total_pdfs |-> Len(all), stats |-> Stats(all), winners |-> Winners(Stats(all))]

(***************************************************************************)
(* main and compare_methods, step by step.                                 *)
(***************************************************************************)
CompareInit ==
  /\ cmp_files \in 0..MaxPdfs
  /\ cmp_i = 0
  /\ cmp_doc = <<>>
  /\ results = <<>>
  /\ all_results = <<>>
  /\ cmp_out = <<>>
  /\ report = <<>>
  /\ tried = <<>>
  /\ cmp_pc = "loop"
  /\ ChunkIdle
  /\ CleanIdle
  /\ BuildIdle
  /\ ExtractIdle
  /\ MainIdle

(* lines 298-303, 115-121: the next PDF; compare_methods starts on it *)
CompareBegin ==
  /\ UNCHANGED <<chunkVars, cleanVars, buildVars, extractVars, mainVars>>
  /\ cmp_pc = "loop"
  /\ cmp_i < cmp_files
  /\ cmp_i' = cmp_i + 1
  /\ \E doc \in PdfDocs : \E ocr \in OcrStates : cmp_doc' = [doc |-> doc, ocr |-> ocr]
  /\ results' = [m \in Methods |-> EmptyEntry]
  /\ tried' = Append(tried, [attempted |-> {}, threw |-> {}, pages2 |-> <<>>])
  /\ cmp_pc' = "method1"
  /\ UNCHANGED <<cmp_files, all_results, cmp_out, report>>

(* the history of one strategy run *)
Tried(m, ret) ==
  [tried EXCEPT ![cmp_i] = [attempted |-> @.attempted \cup {m},
                            threw |-> IF ret.threw THEN @.threw \cup {m} ELSE @.threw,
                            pages2 |-> IF m = "method2" /\ cmp_doc.doc.opens
                                       THEN Method2Pages(cmp_doc.doc, cmp_doc.ocr)
                                       ELSE @.pages2]]

(* lines 123-135 *)
RunMethod1 ==
  /\ UNCHANGED <<chunkVars, cleanVars, buildVars, extractVars, mainVars>>
  /\ cmp_pc = "method1"
  /\ LET ret == extract_method1_pymupdf_text(cmp_doc.doc)
     IN  /\ results' = [results EXCEPT !.method1 = RunStrategy(@, ret)]
         /\ tried' = Tried("method1", ret)
  /\ cmp_pc' = "method2"
  /\ UNCHANGED <<cmp_files, cmp_i, cmp_doc, all_results, cmp_out, report>>

(* lines 137-149 *)
RunMethod2 ==
  /\ UNCHANGED <<chunkVars, cleanVars, buildVars, extractVars, mainVars>>
  /\ cmp_pc = "method2"
  /\ LET ret == extract_method2_pymupdf_ocr(cmp_doc.doc, cmp_doc.ocr)
     IN  /\ results' = [results EXCEPT !.method2 = RunStrategy(@, ret)]
         /\ tried' = Tried("method2", ret)
  /\ cmp_pc' = "gate"
  /\ UNCHANGED <<cmp_files, cmp_i, cmp_doc, all_results, cmp_out, report>>

(* lines 151-165: method 1 gave few words, full-document OCR is run *)
RunMethod3 ==
  /\ UNCHANGED <<chunkVars, cleanVars, buildVars, extractVars, mainVars>>
  /\ cmp_pc = "gate"
  /\ ShouldRunOcr(results.method1.words)
  /\ LET ret == extract_method3_tesseract_ocr(cmp_doc.doc, cmp_doc.ocr)
     IN  /\ results' = [results EXCEPT !.method3 = RunStrategy(@, ret)]
         /\ tried' = Tried("method3", ret)
  /\ cmp_pc' = "save"
  /\ UNCHANGED <<cmp_files, cmp_i, cmp_doc, all_results, cmp_out, report>>

(* lines 151-153, 166-169: method 1 gave enough words, OCR is skipped *)
SkipMethod3 ==
  /\ UNCHANGED <<chunkVars, cleanVars, buildVars, extractVars, mainVars>>
  /\ cmp_pc = "gate"
  /\ ~ShouldRunOcr(results.method1.words)
  /\ results' = [results EXCEPT !.method3.text = None, !.method3.success = FALSE]
  /\ cmp_pc' = "save"
  /\ UNCHANGED <<cmp_files, cmp_i, cmp_doc, all_results, cmp_out, report, tried>>

(* lines 171-178, 304-312: the texts are written, the results are appended *)
SaveOutputs ==
  /\ UNCHANGED <<chunkVars, cleanVars, buildVars, extractVars, mainVars>>
  /\ cmp_pc = "save"
  /\ cmp_out' = Append(cmp_out, Saved(results, "none"))
  /\ all_results' = Append(all_results, results)
  /\ cmp_pc' = "loop"
  /\ UNCHANGED <<cmp_files, cmp_i, cmp_doc, results, report, tried>>

(* lines 171-176, 314-316: a write throws; main prints the error and goes on *)
SaveFails ==
  /\ UNCHANGED <<chunkVars, cleanVars, buildVars, extractVars, mainVars>>
  /\ cmp_pc = "save"
  /\ \E m \in Methods :
       /\ Truthy(results[m].text)
       /\ cmp_out' = Append(cmp_out, Saved(results, m))
  /\ cmp_pc' = "loop"
  /\ UNCHANGED <<cmp_files, cmp_i, cmp_doc, results, all_results, report, tried>>

(* lines 318-326: the report is written and printed *)
GenerateReport ==
  /\ UNCHANGED <<chunkVars, cleanVars, buildVars, extractVars, mainVars>>
  /\ cmp_pc = "loop"
  /\ cmp_i = cmp_files
  /\ Len(all_results) # 0
  /\ report' = << generate_summary_report(all_results) >>
  /\ cmp_pc' = "done"
  /\ UNCHANGED <<cmp_files, cmp_i, cmp_doc, results, all_results, cmp_out, tried>>

(* lines 318-322, 183, 213: total_pdfs is 0, the rate divides by it and    *)
(* main ends with ZeroDivisionError before any line of the report          *)
ReportDividesByZero ==
  /\ UNCHANGED <<chunkVars, cleanVars, buildVars, extractVars, mainVars>>
  /\ cmp_pc = "loop"
  /\ cmp_i = cmp_files
  /\ Len(all_results) = 0
  /\ cmp_pc' = "raised"
  /\ UNCHANGED <<cmp_files, cmp_i, cmp_doc, results, all_results, cmp_out, report, tried>>

CompareNext ==
  \/ CompareBegin
  \/ RunMethod1
  \/ RunMethod2
  \/ RunMethod3
  \/ SkipMethod3
  \/ SaveOutputs
  \/ SaveFails
  \/ GenerateReport
  \/ ReportDividesByZero

SpecCompare == CompareInit /\ [][CompareNext]_vars

(***************************************************************************)
(* C11: compare_methods attempts method 3 exactly when the word count      *)
(* recorded for method 1 is below 50 (30 words: attempted; 50 and 80: not  *)
(* attempted), and when it is not attempted method 3 is recorded with no   *)
(* text, 0 words and success false.                                        *)
(***************************************************************************)
C11_OcrGate ==
  cmp_pc = "save" =>
    /\ ("method3" \in tried[cmp_i].attempted) <=> (results.method1.words < 50)
    /\ (results.method1.words = 30 => "method3" \in tried[cmp_i].attempted)
    /\ (results.method1.words \in {50, 80} => "method3" \notin tried[cmp_i].attempted)
    /\ ("method3" \notin tried[cmp_i].attempted =>
          /\ results.method3.text = None
          /\ results.method3.words = 0
          /\ ~results.method3.success)

(* a PDF of 30 words went through OCR, and the next one, of exactly 50, did not *)
C11_Witness ==
  /\ cmp_pc = "save"
  /\ cmp_i = 2
  /\ Len(all_results) = 1
  /\ all_results[1].method1.words = 30
  /\ "method3" \in tried[1].attempted
  /\ all_results[1].method3.words > 0
  /\ results.method1.words = 50
  /\ "method3" \notin tried[2].attempted

(***************************************************************************)
(* C12: when the extraction of a strategy throws, the result of that       *)
(* strategy has a non-empty error and 0 words, and the strategies after it *)
(* are still run on the document (method 3 if method 1 allows it).         *)
(***************************************************************************)
C12_ThrowRecorded ==
  cmp_pc = "save" =>
    /\ \A m \in tried[cmp_i].threw :
         Truthy(results[m].error) /\ results[m].words = 0
    /\ {"method1", "method2"} \subseteq tried[cmp_i].attempted

(***************************************************************************)
(***************************************************************************)
(* extract_text.py: extract_text_from_pdf and main.                        *)
(***************************************************************************)
(***************************************************************************)
(* line 38: the number of native characters under which a PDF is scanned *)
SCANNED_CHARS == 50

(* a page of 48 characters of text and two newlines after them *)
PagePadded == [i \in 1..SCANNED_CHARS |-> IF i <= SCANNED_CHARS - 2 THEN "x" ELSE NL]

(* the PDFs of PDF_DIR: those above, one of 49 characters, one of 50 and   *)
(* one of 50 of which 48 are left when the page is stripped                *)
ExtractDocs ==
  PdfDocs \cup { Pdf(<<WordsText(25)>>), Pdf(<<LineLong>>), Pdf(<<PagePadded>>) }

(* line 37: sum(len(p.strip()) for p in page_texts) *)
RECURSIVE TotalRaw(_)
TotalRaw(pages) ==
  IF pages = <<>> THEN 0 ELSE Len(Strip(Head(pages))) + TotalRaw(Tail(pages))

(* lines 12-22: check_tesseract_available gives (False, False) without    *)
(* the engine, and with it tells whether ara.traineddata is there          *)
ArabicPack(ocr) == IF ocr = "absent" THEN {FALSE} ELSE BOOLEAN

(* line 38 *)
IsScannedAtMost(total_raw) == total_raw <= SCANNED_CHARS

IsScanned(total_raw) == total_raw < SCANNED_CHARS

(* line 46 *)
OcrLanguage(has_arabic) == IF has_arabic THEN "ara+eng" ELSE "eng"

(***************************************************************************)
(* lines 25-58.  The value has the two things returned and, as history,    *)
(* whether the pages went through OCR and with which language; raised      *)
(* tells that fitz.open threw, which the function does not catch.          *)
(***************************************************************************)
extract_text_from_pdf(doc, ocr, has_arabic) ==
  IF ~doc.opens
  THEN [raised |-> TRUE, page_texts |-> <<>>, is_scanned |-> FALSE,
        ocr_pass |-> FALSE, lang |-> ""]
  ELSE LET is_scanned == IsScanned(TotalRaw(doc.pages))
           ocr_pass == is_scanned /\ ocr # "absent"
       IN  [raised |-> FALSE,
            page_texts |-> IF ocr_pass
                           THEN [p \in 1..Len(doc.pages) |-> OcrRead(p, ocr)]
                           ELSE doc.pages,
            is_scanned |-> is_scanned,
            ocr_pass |-> ocr_pass,
            lang |-> IF ocr_pass THEN OcrLanguage(has_arabic) ELSE ""]

(* what extracted keeps of a call: the PDF, the state of the OCR engine,   *)
(* whether the Arabic pack is there, and what the call gave                *)
Extracted(doc, ocr, has_arabic, got) ==
  [doc |-> doc, ocr |-> ocr, has_arabic |-> has_arabic, got |-> got]

(* lines 61-99, as one function *)
clean_text(pages) ==
  LET hf == HeadersFooters(CountLines(pages), Len(pages))
  IN  NormalizeWhitespace([p \in 1..Len(pages) |-> CleanPage(pages[p], hf)])

(* line 125 *)
RECURSIVE RawLength(_)
RawLength(pages) == IF pages = <<>> THEN 0 ELSE Len(Head(pages)) + RawLength(Tail(pages))

ExtractInit ==
  /\ ext_files \in 0..MaxPdfs
  /\ ext_i = 0
  /\ scanned_pdfs = <<>>
  /\ text_based_pdfs = <<>>
  /\ ext_out = <<>>
  /\ summary = <<>>
  /\ extracted = <<>>
  /\ ext_pc = "loop"
  /\ ChunkIdle
  /\ CleanIdle
  /\ BuildIdle
  /\ CompareIdle
  /\ MainIdle

(* lines 128-133: the PDF is put on one of the two lists *)
Tracked(list, scanned, got) ==
  IF got.is_scanned = scanned
  THEN Append(list, [pdf |-> ext_i + 1, chars |-> RawLength(got.page_texts)])
  ELSE list

(* lines 118-143: a PDF is extracted, cleaned and saved *)
ExtractDocument ==
  /\ UNCHANGED <<chunkVars, cleanVars, buildVars, compareVars, mainVars>>
  /\ ext_pc = "loop"
  /\ ext_i < ext_files
  /\ \E doc \in ExtractDocs : \E ocr \in OcrStates : \E has_arabic \in ArabicPack(ocr) :
       LET got == extract_text_from_pdf(doc, ocr, has_arabic)
       IN  /\ ~got.raised
           /\ extracted' = Append(extracted, Extracted(doc, ocr, has_arabic, got))
           /\ scanned_pdfs' = Tracked(scanned_pdfs, TRUE, got)
           /\ text_based_pdfs' = Tracked(text_based_pdfs, FALSE, got)
           /\ ext_out' = Append(ext_out, File(clean_text(got.page_texts)))
  /\ ext_i' = ext_i + 1
  /\ UNCHANGED <<ext_files, summary, ext_pc>>

(* lines 118-124, 145-147: the PDF cannot be opened; the error is printed  *)
(* and raised again, which ends main                                       *)
ExtractRaises ==
  /\ UNCHANGED <<chunkVars, cleanVars, buildVars, compareVars, mainVars>>
  /\ ext_pc = "loop"
  /\ ext_i < ext_files
  /\ \E doc \in ExtractDocs :
       LET got == extract_text_from_pdf(doc, "absent", FALSE)
       IN  /\ got.raised
           /\ extracted' = Append(extracted, Extracted(doc, "absent", FALSE, got))
  /\ ext_out' = Append(ext_out, NoFile)
  /\ ext_i' = ext_i + 1
  /\ ext_pc' = "raised"
  /\ UNCHANGED <<ext_files, scanned_pdfs, text_based_pdfs, summary>>

(* lines 118-141, 145-147: the text file cannot be written; the same *)
WriteRaises ==
  /\ UNCHANGED <<chunkVars, cleanVars, buildVars, compareVars, mainVars>>
  /\ ext_pc = "loop"
  /\ ext_i < ext_files
  /\ \E doc \in ExtractDocs : \E ocr \in OcrStates : \E has_arabic \in ArabicPack(ocr) :
       LET got == extract_text_from_pdf(doc, ocr, has_arabic)
       IN  /\ ~got.raised
           /\ extracted' = Append(extracted, Extracted(doc, ocr, has_arabic, got))
           /\ scanned_pdfs' = Tracked(scanned_pdfs, TRUE, got)
           /\ text_based_pdfs' = Tracked(text_based_pdfs, FALSE, got)
  /\ ext_out' = Append(ext_out, NoFile)
  /\ ext_i' = ext_i + 1
  /\ ext_pc' = "raised"
  /\ UNCHANGED <<ext_files, summary>>

(* lines 149-163: the summary report *)
PrintSummary ==
  /\ UNCHANGED <<chunkVars, cleanVars, buildVars, compareVars, mainVars>>
  /\ ext_pc = "loop"
  /\ ext_i = ext_files
  /\ summary' = << [text_based |-> Len(text_based_pdfs), scanned |-> Len(scanned_pdfs)] >>
  /\ ext_pc' = "done"
  /\ UNCHANGED <<ext_files, ext_i, scanned_pdfs, text_based_pdfs, ext_out, extracted>>

ExtractNext ==
  \/ ExtractDocument
  \/ ExtractRaises
  \/ WriteRaises
  \/ PrintSummary

SpecExtract == ExtractInit /\ [][ExtractNext]_vars

(***************************************************************************)
(***************************************************************************)
(* chunk_text.py: main.                                                    *)
(***************************************************************************)
(***************************************************************************)
(* the bound: the number of text files in TEXT_DIR *)
MaxFiles == 2

(* the texts of the files *)
MainTexts ==
  { <<"P300", "BLANK", "P650">>,
    <<"BIG3">>,
    <<"NUMUP", "P300", "HEAD", "P300">>,
    <<"NUM", "BLANK", "P300", "P650">>,
    <<"P100">> }

(* a file that cannot be read, or a file and its text *)
Unreadable == [ok |-> FALSE, text |-> <<>>]

Readable(t) == [ok |-> TRUE, text |-> t]

MainFiles == { Readable(t) : t \in MainTexts } \cup {Unreadable}

(* the orders glob may list n files in *)
Orders(n) == { o \in [1..n -> 1..n] : \A i, j \in 1..n : o[i] = o[j] => i = j }

(* what a file gave in a run, before it is handled *)
NotHandled == [handled |-> FALSE, chunks |-> <<>>]

MainInit ==
  /\ \E n \in 0..MaxFiles : txt_files \in [1..n -> MainFiles]
  /\ order = [i \in 1..Len(txt_files) |-> i]
  /\ main_i = 0
  /\ all_chunks = <<>>
  /\ output_file = NoFile
  /\ main_printed = <<>>
  /\ main_run = "first"
  /\ by_file = [i \in 1..Len(txt_files) |-> NotHandled]
  /\ first_run = <<>>
  /\ parked = <<>>
  /\ main_pc = "loop"
  /\ ChunkIdle
  /\ CleanIdle
  /\ BuildIdle
  /\ CompareIdle
  /\ ExtractIdle

(* lines 184-192: the next file is read and chunk_text is called on it;    *)
(* the locals of the call hold what the call before left until the code    *)
(* assigns them                                                            *)
MainOpen ==
  /\ UNCHANGED <<cleanVars, buildVars, compareVars, extractVars>>
  /\ main_pc = "loop"
  /\ main_i < Len(txt_files)
  /\ txt_files[order[main_i + 1]].ok
  /\ main_i' = main_i + 1
  /\ text' = txt_files[order[main_i + 1]].text
  /\ filename' = FileName(order[main_i + 1])
  /\ pc' = "start"
  /\ lost' = {}
  /\ discards' = 0
  /\ emits' = <<>>
  /\ main_pc' = "call"
  /\ UNCHANGED <<language, heading_indices, sections, sec, paragraphs, sentences,
                 chunk_buffer, chunk_tokens, overlap_sentences, chunks, chunk_index>>
  /\ UNCHANGED <<txt_files, order, all_chunks, output_file, main_printed, main_run,
                 by_file, first_run, parked>>

(* lines 184-190, 195-196: the file cannot be read; the error is printed *)
MainReadFails ==
  /\ UNCHANGED <<chunkVars, cleanVars, buildVars, compareVars, extractVars>>
  /\ main_pc = "loop"
  /\ main_i < Len(txt_files)
  /\ ~txt_files[order[main_i + 1]].ok
  /\ main_i' = main_i + 1
  /\ main_printed' = Append(main_printed, [file |-> order[main_i + 1], what |-> "error", chunks |-> 0])
  /\ by_file' = [by_file EXCEPT ![order[main_i + 1]] = [handled |-> TRUE, chunks |-> <<>>]]
  /\ UNCHANGED <<txt_files, order, all_chunks, output_file, main_run, first_run, parked,
                 main_pc>>

(* lines 192-194: chunk_text has returned *)
MainCollect ==
  /\ UNCHANGED <<chunkVars, cleanVars, buildVars, compareVars, extractVars>>
  /\ main_pc = "call"
  /\ pc = "done"
  /\ all_chunks' = all_chunks \o chunks
  /\ main_printed' = Append(main_printed, [file |-> order[main_i], what |-> "created", chunks |-> Len(chunks)])
  /\ by_file' = [by_file EXCEPT ![order[main_i]] = [handled |-> TRUE, chunks |-> chunks]]
  /\ main_pc' = "loop"
  /\ UNCHANGED <<txt_files, order, main_i, output_file, main_run, first_run, parked>>

(* lines 198-203: the chunks are written to OUTPUT_FILE *)
MainWrite ==
  /\ UNCHANGED <<chunkVars, cleanVars, buildVars, compareVars, extractVars>>
  /\ main_pc = "loop"
  /\ main_i = Len(txt_files)
  /\ output_file' = File(all_chunks)
  /\ main_pc' = "done"
  /\ UNCHANGED <<txt_files, order, main_i, all_chunks, main_printed, main_run,
                 by_file, first_run, parked>>

(* lines 176-183, 206-207: the script is run a second time on the same     *)
(* directory, glob listing the files in any order                          *)
MainRerun ==
  /\ UNCHANGED <<chunkVars, cleanVars, buildVars, compareVars, extractVars>>
  /\ main_pc = "done"
  /\ main_run = "first"
  /\ main_run' = "second"
  /\ first_run' = << [by_file |-> by_file, all_chunks |-> all_chunks, order |-> order] >>
  /\ order' \in Orders(Len(txt_files))
  /\ main_i' = 0
  /\ all_chunks' = <<>>
  /\ main_printed' = <<>>
  /\ by_file' = [i \in 1..Len(txt_files) |-> NotHandled]
  /\ main_pc' = "loop"
  /\ UNCHANGED <<txt_files, output_file, parked>>

MainNext ==
  \/ MainOpen
  \/ MainReadFails
  \/ MainCollect
  \/ MainWrite
  \/ MainRerun
  \/ ChunkNext

SpecMain == MainInit /\ [][MainNext]_vars

(***************************************************************************)
(***************************************************************************)
(* chunk_text.py: two calls of chunk_text running at the same time.        *)
(* Everything chunk_text assigns (lines 78-150) is a local of the call, so *)
(* each call has a frame of its own; the variables of the chunk group are  *)
(* the frame of the call that is running, and parked holds the frame of    *)
(* the call that is waiting.  After main has processed the files one by    *)
(* one, two of them are chunked again by two calls whose steps interleave  *)
(* in any way.                                                             *)
(***************************************************************************)
(***************************************************************************)
RunningFrame ==
  [text |-> text, filename |-> filename, language |-> language, pc |-> pc,
   heading_indices |-> heading_indices, sections |-> sections, sec |-> sec,
   paragraphs |-> paragraphs, sentences |-> sentences,
   chunk_buffer |-> chunk_buffer, chunk_tokens |-> chunk_tokens,
   overlap_sentences |-> overlap_sentences, chunks |-> chunks,
   chunk_index |-> chunk_index, lost |-> lost, discards |-> discards,
   emits |-> emits]

(* line 76: the frame of a call that has its two arguments and nothing else *)
NewFrame(t, fname) ==
  [text |-> t, filename |-> fname, language |-> "", pc |-> "start",
   heading_indices |-> <<>>, sections |-> <<>>, sec |-> 0,
   paragraphs |-> <<>>, sentences |-> <<>>,
   chunk_buffer |-> <<>>, chunk_tokens |-> 0,
   overlap_sentences |-> <<>>, chunks |-> <<>>,
   chunk_index |-> 0, lost |-> {}, discards |-> 0,
   emits |-> <<>>]

(* the call of frame fr goes on *)
Resume(fr) ==
  /\ text' = fr.text
  /\ filename' = fr.filename
  /\ language' = fr.language
  /\ pc' = fr.pc
  /\ heading_indices' = fr.heading_indices
  /\ sections' = fr.sections
  /\ sec' = fr.sec
  /\ paragraphs' = fr.paragraphs
  /\ sentences' = fr.sentences
  /\ chunk_buffer' = fr.chunk_buffer
  /\ chunk_tokens' = fr.chunk_tokens
  /\ overlap_sentences' = fr.overlap_sentences
  /\ chunks' = fr.chunks
  /\ chunk_index' = fr.chunk_index
  /\ lost' = fr.lost
  /\ discards' = fr.discards
  /\ emits' = fr.emits

(* the file a name belongs to *)
FileOf(fname) == CHOOSE i \in 1..Len(txt_files) : FileName(i) = fname

(* line 192 called twice at once, on two files that can be read; the call  *)
(* that runs first finds in its locals what the last call of main left     *)
StartTwoCalls ==
  /\ UNCHANGED <<cleanVars, buildVars, compareVars, extractVars>>
  /\ main_pc = "done"
  /\ main_run = "first"
  /\ \E i, j \in 1..Len(txt_files) :
       /\ i < j
       /\ txt_files[i].ok
       /\ txt_files[j].ok
       /\ text' = txt_files[i].text
       /\ filename' = FileName(i)
       /\ parked' = << NewFrame(txt_files[j].text, FileName(j)) >>
  /\ pc' = "start"
  /\ lost' = {}
  /\ discards' = 0
  /\ emits' = <<>>
  /\ main_run' = "interleaved"
  /\ first_run' = << [by_file |-> by_file, all_chunks |-> all_chunks, order |-> order] >>
  /\ by_file' = [i \in 1..Len(txt_files) |-> NotHandled]
  /\ main_pc' = "calls"
  /\ UNCHANGED <<language, heading_indices, sections, sec, paragraphs, sentences,
                 chunk_buffer, chunk_tokens, overlap_sentences, chunks, chunk_index>>
  /\ UNCHANGED <<txt_files, order, main_i, all_chunks, output_file, main_printed>>

(* the call that runs is suspended and the other one goes on *)
Switch ==
  /\ UNCHANGED <<cleanVars, buildVars, compareVars, extractVars>>
  /\ main_pc = "calls"
  /\ parked # <<>>
  /\ Resume(parked[1])
  /\ parked' = << RunningFrame >>
  /\ UNCHANGED <<txt_files, order, main_i, all_chunks, output_file, main_printed,
                 main_run, by_file, first_run, main_pc>>

(* line 152: the call that runs returns its chunks; the other one goes on *)
CallReturns ==
  /\ UNCHANGED <<cleanVars, buildVars, compareVars, extractVars>>
  /\ main_pc = "calls"
  /\ pc = "done"
  /\ by_file' = [by_file EXCEPT ![FileOf(filename)] = [handled |-> TRUE, chunks |-> chunks]]
  /\ IF parked # <<>>
       THEN /\ Resume(parked[1])
            /\ parked' = <<>>
            /\ main_pc' = "calls"
       ELSE /\ UNCHANGED chunkVars
            /\ parked' = parked
            /\ main_pc' = "done"
  /\ UNCHANGED <<txt_files, order, main_i, all_chunks, output_file, main_printed,
                 main_run, first_run>>

InterleavedNext ==
  \/ MainOpen
  \/ MainReadFails
  \/ MainCollect
  \/ MainWrite
  \/ StartTwoCalls
  \/ Switch
  \/ CallReturns
  \/ ChunkNext

SpecInterleaved == MainInit /\ [][InterleavedNext]_vars

(***************************************************************************)
(***************************************************************************)
(* chunk_text.py: main, and then the same files chunked once more with the *)
(* heading list of line 81 stripped of its repeated entries before the     *)
(* sections are built.  The second pass is not code of the repository: it  *)
(* is the run the chunks of the first are compared with.                   *)
(***************************************************************************)
(***************************************************************************)
(* the list without the entries that repeat an earlier one *)
RECURSIVE Deduplicated(_)
Deduplicated(his) ==
  IF his = <<>> THEN <<>>
  ELSE LET front == Deduplicated(SubSeq(his, 1, Len(his) - 1))
           last == his[Len(his)]
       IN  IF \E k \in 1..(Len(his) - 1) : his[k] = last THEN front
           ELSE Append(front, last)

(* main has ended; the files are gone through once more *)
RerunDeduplicated ==
  /\ UNCHANGED <<chunkVars, cleanVars, buildVars, compareVars, extractVars>>
  /\ main_pc = "done"
  /\ main_run = "first"
  /\ main_run' = "deduplicated"
  /\ first_run' = << [by_file |-> by_file, all_chunks |-> all_chunks, order |-> order] >>
  /\ main_i' = 0
  /\ all_chunks' = <<>>
  /\ by_file' = [i \in 1..Len(txt_files) |-> NotHandled]
  /\ main_pc' = "loop_dedup"
  /\ UNCHANGED <<txt_files, order, output_file, main_printed, parked>>

(* lines 184-192 in the second pass: the next file; one that cannot be     *)
(* read gives nothing, as before                                           *)
OpenDeduplicated ==
  /\ UNCHANGED <<cleanVars, buildVars, compareVars, extractVars>>
  /\ main_pc = "loop_dedup"
  /\ main_i < Len(txt_files)
  /\ main_i' = main_i + 1
  /\ LET f == order[main_i + 1]
     IN  IF txt_files[f].ok
         THEN /\ text' = txt_files[f].text
              /\ filename' = FileName(f)
              /\ pc' = "start_dedup"
              /\ lost' = {}
              /\ discards' = 0
              /\ emits' = <<>>
              /\ main_pc' = "call_dedup"
              /\ by_file' = by_file
              /\ UNCHANGED <<language, heading_indices, sections, sec, paragraphs,
                             sentences, chunk_buffer, chunk_tokens, overlap_sentences,
                             chunks, chunk_index>>
         ELSE /\ by_file' = [by_file EXCEPT ![f] = [handled |-> TRUE, chunks |-> <<>>]]
              /\ main_pc' = main_pc
              /\ UNCHANGED chunkVars
  /\ UNCHANGED <<txt_files, order, all_chunks, output_file, main_printed, main_run,
                 first_run, parked>>

(* lines 78-96 with the repeated entries of heading_indices removed *)
SegmentDeduplicated ==
  /\ UNCHANGED <<cleanVars, buildVars, compareVars, extractVars, mainVars>>
  /\ pc = "start_dedup"
  /\ language' = detect_language(text)
  /\ heading_indices' = Deduplicated(detect_headings(text))
  /\ sections' = BuildSections(text, heading_indices')
  /\ sec' = 1
  /\ chunks' = <<>>
  /\ chunk_index' = StartIndex(chunk_index)
  /\ pc' = "section"
  /\ UNCHANGED <<text, filename, paragraphs, sentences, chunk_buffer, chunk_tokens,
                 overlap_sentences, lost, discards, emits>>

(* lines 192-194 in the second pass *)
CollectDeduplicated ==
  /\ UNCHANGED <<chunkVars, cleanVars, buildVars, compareVars, extractVars>>
  /\ main_pc = "call_dedup"
  /\ pc = "done"
  /\ all_chunks' = all_chunks \o chunks
  /\ by_file' = [by_file EXCEPT ![order[main_i]] = [handled |-> TRUE, chunks |-> chunks]]
  /\ main_pc' = "loop_dedup"
  /\ UNCHANGED <<txt_files, order, main_i, output_file, main_printed, main_run,
                 first_run, parked>>

DeduplicatedNext ==
  \/ MainOpen
  \/ MainReadFails
  \/ MainCollect
  \/ MainWrite
  \/ RerunDeduplicated
  \/ OpenDeduplicated
  \/ SegmentDeduplicated
  \/ CollectDeduplicated
  \/ ChunkNext

SpecDeduplicated == MainInit /\ [][DeduplicatedNext]_vars

(***************************************************************************)
(* C13: in each of the three batch mains (extract_text, compare_extraction *)
(* _methods, chunk_text) the failure of one document, one that cannot be   *)
(* opened included, ends the work on that document only: when the run is   *)
(* over, every document of the batch has been taken up.                    *)
(***************************************************************************)
C13_BatchContinues ==
  /\ ext_pc \in {"done", "raised"} => ext_i = ext_files
  /\ cmp_pc \in {"done", "raised"} => cmp_i = cmp_files
  /\ main_pc = "done" => main_i = Len(txt_files)

(***************************************************************************)
(* C14: every batch run ends with its report of counts, whatever the       *)
(* documents (none at all, or all failing), and a strategy whose           *)
(* extraction threw on some document shows in a count of the report: its   *)
(* errors are not 0, or its successes are fewer than the documents found.  *)
(***************************************************************************)
C14_CountsReported ==
  /\ cmp_pc \in {"done", "raised"} =>
       /\ report # <<>>
       /\ \A m \in Methods :
            (\E i \in 1..Len(tried) : m \in tried[i].threw)
            => (report[1].stats[m].errors > 0 \/ report[1].stats[m].success < cmp_files)
  /\ ext_pc \in {"done", "raised"} => summary # <<>>
  /\ main_pc = "done" =>
       /\ output_file = File(all_chunks)
       /\ Len(main_printed) = Len(txt_files)

(***************************************************************************)
(* C15: a section whose whole content has fewer than MIN_TOKENS (150)      *)
(* tokens gives no chunk, and chunk_index is not advanced by it: when the  *)
(* section is over the counter is the number of chunks of the sections     *)
(* before it.                                                              *)
(***************************************************************************)
C15_SmallSectionNoChunk ==
  pc \in {"section", "para", "sent", "done"} =>
    \A s \in 1..Len(sections) :
      \/ /\ \A i \in 1..Len(emits) : emits[i].sec # s
         /\ (pc = "section" /\ sec = s + 1) =>
              chunk_index = Cardinality({ i \in 1..Len(emits) : emits[i].sec < s })
      \/ ~(SumTok(SectionUnits(s)) < 150)

(* a section with some content under MIN_TOKENS, and a chunk of a later section *)
C15_Witness ==
  /\ pc = "done"
  /\ \E s \in 1..Len(sections) :
       /\ SumTok(SectionUnits(s)) > 0
       /\ SumTok(SectionUnits(s)) < MIN_TOKENS
       /\ \E i \in 1..Len(emits) : emits[i].sec > s /\ chunks[i].chunk_index = 0

(***************************************************************************)
(* C16: the token_count of every chunk record is the token count of the    *)
(* body alone, taken before the prefix is put in front: it is the value    *)
(* that was compared with MIN_TOKENS when the chunk was emitted, and it    *)
(* has none of the tokens of the prefix.                                   *)
(***************************************************************************)
C16_TokenCountOfBody ==
  pc \in {"section", "para", "sent", "done"} =>
    \A i \in 1..Len(chunks) :
      /\ chunks[i].token_count = SumTok(Body(chunks[i]))
      /\ chunks[i].token_count = emits[i].counted
      /\ chunks[i].token_count
           < TokenCountStamped(Body(chunks[i]), chunks[i].filename,
                               chunks[i].chunk_index, chunks[i].section_heading)

(* the second file of a run gave a chunk with a section line in its prefix *)
C16_Witness ==
  /\ main_pc = "call"
  /\ main_i = 2
  /\ pc = "done"
  /\ \E i \in 1..Len(chunks) : chunks[i].section_heading # "" /\ Len(Body(chunks[i])) > 1

(***************************************************************************)
(* C17: the text of every chunk record is the Document line, the Section   *)
(* line exactly when the section heading is not empty, the Chunk Index     *)
(* line and a blank line, then the body as it was in the buffer; the index *)
(* in the prefix is the chunk_index of the record, and the record has the  *)
(* fields filename, chunk_index, text, token_count, section_heading,       *)
(* language and no other.                                                  *)
(***************************************************************************)
C17_PrefixThenBody ==
  pc \in {"section", "para", "sent", "done"} =>
    \A i \in 1..Len(chunks) :
      LET c == chunks[i]
          document_line == "[Document: " \o filename \o "]\n"
          section_line == "[Section: " \o sections[emits[i].sec].heading \o "]\n"
          index_line == "[Chunk Index: " \o ToString(i - 1) \o "]\n\n"
      IN  /\ DOMAIN c = {"filename", "chunk_index", "text", "token_count",
                         "section_heading", "language"}
          /\ c.filename = filename
          /\ c.section_heading = sections[emits[i].sec].heading
          /\ c.text[1] = IF sections[emits[i].sec].heading # ""
                         THEN document_line \o section_line \o index_line
                         ELSE document_line \o index_line
          /\ c.text[2] = emits[i].buffer
          /\ c.chunk_index = i - 1

(* a file gave a chunk under a heading, another file a chunk with none *)
C17_Witness ==
  /\ main_pc = "done"
  /\ \E i, j \in 1..Len(all_chunks) :
       /\ all_chunks[i].section_heading # ""
       /\ all_chunks[j].section_heading = ""
       /\ all_chunks[i].filename # all_chunks[j].filename
       /\ all_chunks[j].chunk_index > 0

C19_Deterministic ==
  (main_run = "second" /\ order = first_run[1].order) =>
    /\ \A i \in 1..Len(txt_files) :
         by_file[i].handled => by_file[i].chunks = first_run[1].by_file[i].chunks
    /\ main_pc = "done" =>
         /\ all_chunks = first_run[1].all_chunks
         /\ output_file = File(first_run[1].all_chunks)

(* two files that both gave chunks, chunked twice in the same order *)
C19_Witness ==
  /\ main_pc = "done"
  /\ main_run = "second"
  /\ order = first_run[1].order
  /\ Len(txt_files) = 2
  /\ \A i \in 1..2 : Len(by_file[i].chunks) > 1
  /\ txt_files[1] # txt_files[2]

(***************************************************************************)
(* C20: chunking two documents by two calls whose steps interleave in any  *)
(* way gives each document the chunk records it gave when main processed   *)
(* the documents one by one.  In the call that runs, the counter counts    *)
(* the chunks of its document only, and the buffer, the running total and  *)
(* the overlap hold units of its current section only; the same holds of   *)
(* the call that waits, whose frame no step of the other call changes.     *)
(***************************************************************************)
C20_DocumentsIsolated ==
  /\ main_run = "interleaved" =>
       \A i \in 1..Len(txt_files) :
         by_file[i].handled => by_file[i].chunks = first_run[1].by_file[i].chunks
  /\ (main_pc \in {"call", "calls"} /\ pc \in {"section", "para", "sent", "done"}) =>
       /\ chunk_index = Len(chunks)
       /\ \A i \in 1..Len(chunks) : chunks[i].filename = filename
  /\ (main_pc \in {"call", "calls"} /\ pc \in {"para", "sent"}) =>
       /\ Units(chunk_buffer) \subseteq Units(SectionUnits(sec))
       /\ Units(overlap_sentences) \subseteq Units(SectionUnits(sec))
       /\ chunk_tokens = SumTok(chunk_buffer)
  /\ (parked # <<>> /\ parked[1].pc \in {"section", "para", "sent", "done"}) =>
       /\ parked[1].filename # filename
       /\ parked[1].chunk_index = Len(parked[1].chunks)
       /\ \A i \in 1..Len(parked[1].chunks) :
            parked[1].chunks[i].filename = parked[1].filename
       /\ parked[1].chunk_tokens = SumTok(parked[1].chunk_buffer)

(* both calls are in the middle of a section of their own document, each *)
(* with chunks made and units in its buffer                               *)
C20_Witness ==
  /\ main_run = "interleaved"
  /\ main_pc = "calls"
  /\ parked # <<>>
  /\ parked[1].text # text
  /\ pc \in {"para", "sent"}
  /\ parked[1].pc \in {"para", "sent"}
  /\ chunk_index >= 1
  /\ parked[1].chunk_index >= 1
  /\ chunk_buffer # <<>>
  /\ parked[1].chunk_buffer # <<>>
  /\ \E i \in 1..Len(txt_files) : first_run[1].by_file[i].chunks # <<>>

(***************************************************************************)
(* C21: extract_text_from_pdf reports is_scanned exactly when the texts of *)
(* the pages, each stripped, have fewer than 50 characters together; only  *)
(* then may the pages go through OCR, with "ara+eng" when the Arabic pack  *)
(* is there and "eng" otherwise; a document of 50 characters or more keeps *)
(* its native page texts.                                                  *)
(***************************************************************************)
NativeChars(pages) ==
  LET RECURSIVE Sum(_)
      Sum(n) == IF n = 0 THEN 0 ELSE Len(Strip(pages[n])) + Sum(n - 1)
  IN  Sum(Len(pages))

C23_PageByPage ==
  (cmp_pc \in {"gate", "save"} /\ cmp_doc.doc.opens) =>
    LET native == cmp_doc.doc.pages
        got == tried[cmp_i].pages2
        joined == Join([q \in 1..Len(got) |-> got[q].text], <<NL, NL>>)
    IN  /\ Len(got) = Len(native)
        /\ results.method1.text =
             (IF Join(native, <<NL, NL>>) = <<>> THEN None ELSE Str(Join(native, <<NL, NL>>)))
        /\ results.method2.text = (IF joined = <<>> THEN None ELSE Str(joined))
        /\ \A q \in 1..Len(native) :
             /\ Len(Strip(native[q])) >= 10 =>
                  (got[q].text = native[q] /\ ~got[q].ocr_called)
             /\ got[q].ocr_called =>
                  (native[q] = <<>> \/ Len(Strip(native[q])) < 10)
             /\ (got[q].text # native[q]) => got[q].ocr_called

(* a page of 9 characters and a newline read by OCR, next to a page of 10 kept as it is *)
C23_Witness ==
  /\ cmp_pc = "save"
  /\ cmp_doc.doc = Pdf(<<Page9, Page10>>)
  /\ cmp_doc.ocr = "works"
  /\ tried[cmp_i].pages2[1].ocr_called
  /\ tried[cmp_i].pages2[1].text = OcrPage
  /\ ~tried[cmp_i].pages2[2].ocr_called
  /\ tried[cmp_i].pages2[2].text = Page10

(***************************************************************************)
(* C24: detect_headings gives each heading line once: the list of heading  *)
(* indices is strictly increasing, also where a line satisfies two or      *)
(* three of the rules.                                                     *)
(***************************************************************************)
C24_HeadingsOnce ==
  pc \in {"section", "para", "sent", "done"} =>
    \A i, j \in 1..Len(heading_indices) :
      i < j => heading_indices[i] < heading_indices[j]

(***************************************************************************)
(* C25: with headings detected, section i holds the lines from entry i of  *)
(* the heading list up to, not including, entry i+1, the last section runs *)
(* to the last line, the heading of a section is its heading line, and the *)
(* sections are taken in that order; without headings there is one section *)
(* with the empty heading holding the whole text.                          *)
(***************************************************************************)
C25_SectionsFromHeadings ==
  pc \in {"section", "para", "sent", "done"} =>
    /\ heading_indices = <<>> =>
         /\ Len(sections) = 1
         /\ sections[1].heading = ""
         /\ sections[1].start = 1
         /\ sections[1].end = Len(text) + 1
    /\ heading_indices # <<>> =>
         /\ Len(sections) = Len(heading_indices)
         /\ \A i \in 1..Len(sections) :
              /\ sections[i].start = heading_indices[i]
              /\ sections[i].heading = text[heading_indices[i]]
              /\ i < Len(sections) => sections[i].end = heading_indices[i + 1]
              /\ i = Len(sections) => sections[i].end = Len(text) + 1
    /\ \A i, j \in 1..Len(emits) : i < j => emits[i].sec <= emits[j].sec
    /\ \A i \in 1..Len(chunks) :
         /\ chunks[i].section_heading = sections[emits[i].sec].heading
         /\ \A u \in Units(Body(chunks[i])) :
              /\ u.line >= sections[emits[i].sec].start
              /\ u.line < sections[emits[i].sec].end

(* two sections under two different heading lines, each of which gave a chunk *)
C25_Witness ==
  /\ pc = "done"
  /\ Len(sections) >= 2
  /\ sections[1].start < sections[1].end
  /\ sections[1].heading # sections[Len(sections)].heading
  /\ \E i, j \in 1..Len(chunks) : emits[i].sec = 1 /\ emits[j].sec = Len(sections)

(***************************************************************************)
(* C26: throughout packing chunk_tokens is the sum of the token counts of  *)
(* the units held in chunk_buffer: at the start of a section, after an     *)
(* append, after an emit that reseeds the buffer with the overlap and      *)
(* after a discard, in the paragraph branch and in the sentence branch.    *)
(***************************************************************************)
C26_RunningTotal ==
  pc \in {"para", "sent", "done"} => chunk_tokens = SumTok(chunk_buffer)

(* in the sentence branch, right after a chunk was emitted, the buffer     *)
(* reseeded with two units of overlap and the next sentence appended       *)
C26_Witness ==
  /\ pc = "sent"
  /\ Len(chunks) >= 1
  /\ Len(overlap_sentences) = 2
  /\ Len(chunk_buffer) = 3
  /\ SubSeq(chunk_buffer, 1, 2) = overlap_sentences
  /\ chunk_tokens > MAX_TOKENS

(***************************************************************************)
(* C27: every chunk holds a unit that no earlier chunk of the document     *)
(* holds; no chunk is made of the overlap of the chunk before it alone;    *)
(* a section gives at most as many chunks as it has units.                 *)
(***************************************************************************)
C27_ChunkHasNewUnit ==
  pc \in {"section", "para", "sent", "done"} =>
    /\ \A i \in 1..Len(chunks) :
         \E u \in Units(Body(chunks[i])) :
           \A j \in 1..(i - 1) : u \notin Units(Body(chunks[j]))
    /\ \A i \in 2..Len(chunks) :
         ~(Units(Body(chunks[i])) \subseteq Units(Body(chunks[i - 1])))
    /\ \A s \in 1..Len(sections) :
         (s < sec \/ pc = "done") =>
           LET n == Cardinality({ i \in 1..Len(emits) : emits[i].sec = s })
           IN  n = 0 \/ n <= Len(SectionUnits(s))

(* two chunks of one section, the second starting with the overlap of the first *)
C27_Witness ==
  /\ pc = "done"
  /\ Len(chunks) >= 2
  /\ emits[1].sec = emits[2].sec
  /\ Units(Body(chunks[1])) \cap Units(Body(chunks[2])) # {}
  /\ Len(SectionUnits(emits[1].sec)) >= 3

(***************************************************************************)
(* C28: nothing crosses a section boundary.  When a section starts, the    *)
(* buffer, the running total and the overlap are empty; while it is packed *)
(* the buffer and the overlap hold units of that section only; the units   *)
(* of a chunk all come from one section, whose heading the chunk carries.  *)
(***************************************************************************)
AtSectionStart ==
  /\ pc = "para"
  /\ sec <= Len(sections)
  /\ paragraphs = split_paragraphs(text, sections[sec].start, sections[sec].end)

C28_NoCrossSection ==
  /\ \/ (chunk_buffer = <<>> /\ chunk_tokens = 0 /\ overlap_sentences = <<>>)
     \/ ~AtSectionStart
  /\ (pc \in {"para", "sent"} /\ chunk_buffer \o overlap_sentences # <<>>) =>
       LET units == Units(SectionUnits(sec))
       IN  /\ Units(chunk_buffer) \subseteq units
           /\ Units(overlap_sentences) \subseteq units
  /\ pc \in {"section", "para", "sent", "done"} =>
       \A s \in { emits[i].sec : i \in 1..Len(chunks) } :
         /\ s \in 1..Len(sections)
         /\ LET units == Units(SectionUnits(s))
            IN  \A i \in 1..Len(chunks) :
                  emits[i].sec = s =>
                    /\ chunks[i].section_heading = sections[s].heading
                    /\ Units(Body(chunks[i])) \subseteq units

(* the second section starts after the first gave two chunks, the second   *)
(* of them with overlap                                                    *)
C28_Witness ==
  /\ AtSectionStart
  /\ sec = 2
  /\ paragraphs # <<>>
  /\ Len(chunks) >= 2
  /\ emits[1].sec = 1
  /\ emits[2].sec = 1
  /\ sections[1].heading # sections[2].heading

(***************************************************************************)
(* C29: where detect_headings gives a line index more than once, the       *)
(* chunks are those the text gives with the repeated entries removed; a    *)
(* repeated entry makes an empty section only, which gives no chunk.       *)
(***************************************************************************)
C29_DuplicateHeadingsHarmless ==
  /\ main_run = "deduplicated" =>
       /\ \A i \in 1..Len(txt_files) :
            by_file[i].handled => by_file[i].chunks = first_run[1].by_file[i].chunks
       /\ (main_pc = "loop_dedup" /\ main_i = Len(txt_files)) =>
            all_chunks = first_run[1].all_chunks
  /\ (main_pc = "call" /\ pc \in {"section", "para", "sent", "done"}) =>
       \A s \in 1..(Len(sections) - 1) :
         sections[s].start = sections[s + 1].start =>
           /\ sections[s].end = sections[s].start
           /\ \A i \in 1..Len(emits) : emits[i].sec # s

(* a file whose heading list repeats an index and which gives chunks,      *)
(* chunked both ways                                                       *)
C29_Witness ==
  /\ main_run = "deduplicated"
  /\ main_pc = "loop_dedup"
  /\ main_i = Len(txt_files)
  /\ \E i \in 1..Len(txt_files) :
       /\ txt_files[i].ok
       /\ Len(detect_headings(txt_files[i].text)) >
            Len(Deduplicated(detect_headings(txt_files[i].text)))
       /\ Len(by_file[i].chunks) >= 2
       /\ by_file[i].chunks = first_run[1].by_file[i].chunks

(***************************************************************************)
(* The lines of a one-page document.                                       *)
(***************************************************************************)
(* the stripped lines of 50 characters or more that are no page numbers,   *)
(* in order, each as it reads once its runs of spaces are made one space   *)
RECURSIVE LongLinesCollapsed(_)
LongLinesCollapsed(ls) ==
  IF ls = <<>> THEN <<>>
  ELSE (IF Len(Head(ls)) >= SHORT_LINE_LEN /\ ~IsPageNumber(Head(ls))
        THEN << CollapseSpaces(Head(ls)) >> ELSE <<>>)
       \o LongLinesCollapsed(Tail(ls))

(* on one page every stripped line under 50 characters is a header or footer *)
SinglePageShortRemoved ==
  (cpc \in {"remove", "join", "done"} /\ Len(page_texts) = 1) =>
    \A l \in InputLines : Len(l) < SHORT_LINE_LEN => l \in headers_footers

(***************************************************************************)
(* C30, as stated: on a one-page input every stripped line under 50        *)
(* characters is removed, and every line of the cleaned text has 50        *)
(* characters or more.                                                     *)
(***************************************************************************)
C30_SinglePageOnlyLongLines ==
  /\ SinglePageShortRemoved
  /\ (cpc = "done" /\ Len(page_texts) = 1) =>
       \A i \in 1..Len(OutputLines) : Len(OutputLines[i]) >= SHORT_LINE_LEN

(***************************************************************************)
(* C30, amended: on a one-page input every stripped line under 50          *)
(* characters is removed, and the lines of the cleaned text are the        *)
(* stripped lines of 50 characters or more, in order, with their runs of   *)
(* spaces made one space (so a line of the cleaned text may be shorter     *)
(* than 50 characters).                                                    *)
(***************************************************************************)
C30_SinglePageLongLinesCollapsed ==
  /\ SinglePageShortRemoved
  /\ (cpc = "done" /\ Len(page_texts) = 1) =>
       OutputLines = LongLinesCollapsed(AllStripped(page_texts))

C30_Witness ==
  /\ cpc = "done"
  /\ Len(page_texts) = 1
  /\ \E l \in InputLines : l # <<>> /\ Len(l) < SHORT_LINE_LEN /\ ~IsPageNumber(l)
  /\ \E i \in 1..Len(OutputLines) : Len(OutputLines[i]) = SHORT_LINE_LEN
  /\ \E i \in 1..Len(OutputLines) : Len(OutputLines[i]) < SHORT_LINE_LEN

====
